---- MODULE Spec2Model ----
(***************************************************************************)
(* Model of the fast-paytube bridge: the sharded authority replica         *)
(* (fast-core/src/authority.rs), the value layer (message.rs,              *)
(* committee.rs) and the relayer with its datagram transport               *)
(* (fast-init/src/relayer.rs, network.rs, server.rs).                      *)
(*                                                                         *)
(* Abstractions.  A Pubkey is a natural number whose value modulo 256 is   *)
(* the key's first byte.  A CrossChainTransfer keeps the fields the code   *)
(* branches on (sender, amount, interop_tx_id, nonce).  An Ed25519         *)
(* signature is the pair (signer, message): Signature::check succeeds      *)
(* exactly when the claimed author is the signer and the value is the      *)
(* signed message.  Signatures of honest authorities exist only once the   *)
(* authority has produced them; Byzantine authorities and senders hold     *)
(* their keys and can sign anything at any time.                           *)
(***************************************************************************)
EXTENDS Integers, Sequences, FiniteSets, TLC

\* ------------------------------------------------------------------ bounds
NumShards == 2
MaxBacklog == 1
MaxTime == 420
MaxVotes == 3
MaxCalls == 2

\* ------------------------------------------------------- program constants
ShardModulus == 16
DummySenderSeedKey == 129
DummyAmount == 1000
DummyTxId == 1
PollThrottle == 10
PendingTimeout == 300
DefaultValue == 0

\* polling intervals tried, in seconds
PollingIntervals == {60}

\* -------------------------------------------------------------- universes
AuthorityNames == {1, 2, 3, 4}
Stranger == 5
NoKey == 0 - 1

ShardIds == 0 .. (NumShards - 1)
ShardIdInputs == 0 .. NumShards

UnservedSender == ShardModulus + NumShards

TA == [sender |-> DummySenderSeedKey, amount |-> DummyAmount, interop_tx_id |-> DummyTxId, nonce |-> 0]
TB == [sender |-> DummySenderSeedKey, amount |-> 2 * DummyAmount, interop_tx_id |-> DummyTxId, nonce |-> 0]
TC == [sender |-> ShardModulus, amount |-> DummyAmount, interop_tx_id |-> 2, nonce |-> 0]
TD == [sender |-> UnservedSender, amount |-> DummyAmount, interop_tx_id |-> DummyTxId, nonce |-> 0]

\* TA is the relayer's transfer; TB and TD carry TA's id with other contents
\* (the id field is not checked against the contents); TD's sender maps to a
\* shard no authority serves; TC is an unrelated transfer of another shard
Transfers == {TA, TB, TD}
AllTransfers == {TA, TB, TC, TD}
TxIds == {t.interop_tx_id : t \in AllTransfers}

VARIABLES
    voting_rights,      \* Committee.voting_rights: name -> weight (0 = not a member)
    byzantine,          \* committee members that do not run this code
    shard_states,       \* BridgeAuthorityState.shard_states: authority -> shard -> state
    bus,                \* the cross-shard channel of each authority (FIFO)
    sigs,               \* signatures produced so far by honest authorities
    escrow_ok,          \* <<authority, transfer>>: verify_escrow returned Ok(true)
    updated,            \* <<authority, shard, id>>: an update for id was applied
    key_order,          \* iteration order of each authority's shard_states (<<>> = not yet iterated)
    reply,              \* result of the last handler call
    server_tasks,       \* shard servers of each authority that run inside join_all
    now,                \* the clock read by Instant::now(), in seconds
    polling_interval,   \* Relayer.polling_interval, in seconds
    last_poll,          \* Relayer.last_poll (NoInstant = None)
    relayer_pending,    \* Relayer.pending_transfers: id -> PendingTransfer
    r_pc,               \* where the relayer's run loop stands
    r_local,            \* locals of the relayer's loops across their awaits
    r_keys,             \* iteration order of Relayer.authority_clients (<<>> = not yet iterated)
    r_removed,          \* why check_pending_transfers last removed an id: completed or timed_out
    wire,               \* the datagram in flight between relayer and a shard server
    lossy,              \* whether send_to can fail, on the relayer's host or a server's
    v_cert,             \* a CertifiedCrossChainTransferOrder under test
    v_agg,              \* a CrossChainSignatureAggregator fed with v_cert's signatures
    v_pos,              \* how many signatures of v_cert were given to append
    v_append,           \* what the last append returned
    v_check,            \* what check returned for v_cert
    m_votes,            \* a list of (authority, value) votes
    m_result,           \* what get_strong_majority_lower_bound returned for m_votes
    t_calls,            \* calls of send_recv made on one client socket
    t_waiting,          \* the current call is inside recv_from
    t_net,              \* datagrams between the client socket and the server
    t_sock,             \* datagrams queued in the client socket, oldest first
    t_last,             \* <<call, request answered>> of the last reply a call returned
    to_send,            \* responses the shard servers of each authority have still to send
    lock,               \* the Mutex around each authority's state: the shard servers holding it
    in_closure          \* the shard servers of each authority inside the closure of run_shard_server

authority_vars ==
    <<voting_rights, byzantine, shard_states, bus, sigs, escrow_ok, updated, key_order, reply,
      server_tasks>>
relayer_vars == <<now, polling_interval, last_poll, relayer_pending, r_pc, r_local, r_keys, r_removed, wire, lossy>>
value_vars == <<v_cert, v_agg, v_pos, v_append, v_check, m_votes, m_result>>
transport_vars == <<t_calls, t_waiting, t_net, t_sock, t_last>>
server_vars == <<to_send, lock, in_closure>>
vars == <<authority_vars, relayer_vars, value_vars, transport_vars, server_vars>>

\* ------------------------------------------------------------- primitives
FirstByte(key) == key % 256

\* Signature::new
SignatureNew(value, key) == [signer |-> key, msg |-> value]

BadSig == [signer |-> NoKey, msg |-> TA]

\* Signature::check
SignatureCheck(sig, value, author) == sig.signer = author /\ sig.msg = value

\* Signature::verify_batch: all or nothing
VerifyBatch(value, votes) ==
    \A i \in 1 .. Len(votes) : SignatureCheck(votes[i][2], value, votes[i][1])

\* CrossChainTransferOrder::new
OrderNew(t) == [transfer |-> t, signature |-> SignatureNew(t, t.sender)]

\* CrossChainTransferOrder::check_signature
OrderCheckSignature(order) ==
    SignatureCheck(order.signature, order.transfer, order.transfer.sender)

\* ------------------------------------------------------------- committee
Members == {n \in DOMAIN voting_rights : voting_rights[n] > 0}

\* every authority the committee file lists runs the replica, whatever its
\* weight, unless it is faulty
Honest == DOMAIN voting_rights \ byzantine

RECURSIVE SumWeights(_, _)
SumWeights(rights, S) ==
    IF S = {} THEN 0
    ELSE LET n == CHOOSE x \in S : TRUE
         IN rights[n] + SumWeights(rights, S \ {n})

\* Committee::new
TotalVotes(rights) == SumWeights(rights, DOMAIN rights)

\* Committee::weight
Weight(rights, author) == IF author \in DOMAIN rights THEN rights[author] ELSE 0

\* mutation: the quorum threshold is two thirds of the votes rounded up
QuorumThresholdCeiling(rights) == (2 * TotalVotes(rights) + 2) \div 3

\* mutation: the quorum threshold is two thirds of the votes rounded down
QuorumThresholdTwoThirds(rights) == (2 * TotalVotes(rights)) \div 3

\* Committee::quorum_threshold
QuorumThreshold(rights) == (2 * TotalVotes(rights)) \div 3 + 1

\* Committee::validity_threshold
ValidityThreshold(rights) == (TotalVotes(rights) + 2) \div 3

\* values sorted by decreasing value, votes of equal value in their order
RECURSIVE SortByValueDesc(_)
SortByValueDesc(values) ==
    IF values = <<>> THEN <<>>
    ELSE LET rest == SortByValueDesc(SubSeq(values, 1, Len(values) - 1))
             last == values[Len(values)]
             k == Cardinality({i \in DOMAIN rest : rest[i][2] >= last[2]})
         IN SubSeq(rest, 1, k) \o <<last>> \o SubSeq(rest, k + 1, Len(rest))

\* Committee::get_strong_majority_lower_bound, the loop over the sorted votes
RECURSIVE MajorityLoop(_, _, _, _)
MajorityLoop(rights, values, i, score) ==
    IF i > Len(values) THEN DefaultValue
    ELSE IF score + Weight(rights, values[i][1]) >= QuorumThreshold(rights)
    THEN values[i][2]
    ELSE MajorityLoop(rights, values, i + 1, score + Weight(rights, values[i][1]))

\* Committee::get_strong_majority_lower_bound
GetStrongMajorityLowerBound(rights, values) ==
    MajorityLoop(rights, SortByValueDesc(values), 1, 0)

\* ----------------------------------------------------------- certificates
\* mutation: an authority listed again is counted again
RECURSIVE CheckLoopNoReuse(_, _, _, _, _)
CheckLoopNoReuse(rights, signatures, i, used, weight) ==
    IF i > Len(signatures) THEN [err |-> "Ok", weight |-> weight]
    ELSE LET authority == signatures[i][1]
         IN IF Weight(rights, authority) = 0
            THEN [err |-> "UnknownSigner", weight |-> weight]
            ELSE CheckLoopNoReuse(rights, signatures, i + 1, used \cup {authority},
                                  weight + Weight(rights, authority))

\* CertifiedCrossChainTransferOrder::check, the loop over the signatures
RECURSIVE CheckLoop(_, _, _, _, _)
CheckLoop(rights, signatures, i, used, weight) ==
    IF i > Len(signatures) THEN [err |-> "Ok", weight |-> weight]
    ELSE LET authority == signatures[i][1]
         IN IF authority \in used
            THEN [err |-> "CertificateAuthorityReuse", weight |-> weight]
            ELSE IF Weight(rights, authority) = 0
            THEN [err |-> "UnknownSigner", weight |-> weight]
            ELSE CheckLoop(rights, signatures, i + 1, used \cup {authority},
                           weight + Weight(rights, authority))

\* mutation: a certificate needs more than the quorum threshold
CertCheckStrict(cert, rights) ==
    LET loop == CheckLoop(rights, cert.signatures, 1, {}, 0)
        inner_sig == <<cert.value.transfer.sender, cert.value.signature>>
    IN IF loop.err # "Ok" THEN loop.err
       ELSE IF loop.weight <= QuorumThreshold(rights) THEN "CertificateRequiresQuorum"
       ELSE IF ~VerifyBatch(cert.value.transfer, <<inner_sig>> \o cert.signatures)
       THEN "InvalidSignature"
       ELSE "Ok"

\* CertifiedCrossChainTransferOrder::check
CertCheck(cert, rights) ==
    LET loop == CheckLoop(rights, cert.signatures, 1, {}, 0)
        inner_sig == <<cert.value.transfer.sender, cert.value.signature>>
    IN IF loop.err # "Ok" THEN loop.err
       ELSE IF loop.weight < QuorumThreshold(rights) THEN "CertificateRequiresQuorum"
       ELSE IF ~VerifyBatch(cert.value.transfer, <<inner_sig>> \o cert.signatures)
       THEN "InvalidSignature"
       ELSE "Ok"

\* --------------------------------------------------------------- authority
\* BridgeShardState::new
ShardStateNew == [processed_transfers |-> {}, pending_transfers |-> <<>>]

\* BridgeAuthorityState::get_shard_id
GetShardId(t) == FirstByte(t.sender) % ShardModulus

\* BridgeAuthorityState::in_shard
InShard(t, shard_id) == GetShardId(t) = shard_id

\* pending_transfers.insert(id, order)
MapInsert(m, k, v) == [x \in DOMAIN m \cup {k} |-> IF x = k THEN v ELSE m[x]]

\* pending_transfers.remove(id)
MapRemove(m, k) == [x \in DOMAIN m \ {k} |-> m[x]]

\* mutation: the processed set is not looked at
HandleOrderResultNoProcessedCheck(a, order, shard_id, escrow) ==
    IF ~InShard(order.transfer, shard_id) THEN "WrongShard"
    ELSE IF shard_id \notin DOMAIN shard_states[a] THEN "ShardStateNotFound"
    ELSE IF ~OrderCheckSignature(order) THEN "InvalidSignature"
    ELSE IF escrow \notin {"true", "false"} THEN escrow
    ELSE IF escrow = "false" THEN "InvalidTransferAmount"
    ELSE "Signed"

\* mutation: the oracle's answer false is taken for true
HandleOrderResultEscrowIgnored(a, order, shard_id, escrow) ==
    IF ~InShard(order.transfer, shard_id) THEN "WrongShard"
    ELSE IF shard_id \notin DOMAIN shard_states[a] THEN "ShardStateNotFound"
    ELSE IF ~OrderCheckSignature(order) THEN "InvalidSignature"
    ELSE IF order.transfer.interop_tx_id \in shard_states[a][shard_id].processed_transfers
    THEN "CertificateAlreadyExists"
    ELSE IF escrow \notin {"true", "false"} THEN escrow
    ELSE "Signed"

\* mutation: the processed set is looked at before the order's signature
HandleOrderResultProcessedFirst(a, order, shard_id, escrow) ==
    IF ~InShard(order.transfer, shard_id) THEN "WrongShard"
    ELSE IF shard_id \notin DOMAIN shard_states[a] THEN "ShardStateNotFound"
    ELSE IF order.transfer.interop_tx_id \in shard_states[a][shard_id].processed_transfers
    THEN "CertificateAlreadyExists"
    ELSE IF ~OrderCheckSignature(order) THEN "InvalidSignature"
    ELSE IF escrow \notin {"true", "false"} THEN escrow
    ELSE IF escrow = "false" THEN "InvalidTransferAmount"
    ELSE "Signed"

\* BridgeAuthorityState::handle_cross_chain_transfer_order: the outcome of
\* mutation: the shard of the sender is not checked
HandleOrderResultNoShardCheck(a, order, shard_id, escrow) ==
    IF shard_id \notin DOMAIN shard_states[a] THEN "ShardStateNotFound"
    ELSE IF ~OrderCheckSignature(order) THEN "InvalidSignature"
    ELSE IF order.transfer.interop_tx_id \in shard_states[a][shard_id].processed_transfers
    THEN "CertificateAlreadyExists"
    ELSE IF escrow \notin {"true", "false"} THEN escrow
    ELSE IF escrow = "false" THEN "InvalidTransferAmount"
    ELSE "Signed"

\* the checks, in the order of the code.  escrow is the oracle's answer:
\* "true", "false" or the error it failed with.
HandleOrderResult(a, order, shard_id, escrow) ==
    IF ~InShard(order.transfer, shard_id) THEN "WrongShard"
    ELSE IF shard_id \notin DOMAIN shard_states[a] THEN "ShardStateNotFound"
    ELSE IF ~OrderCheckSignature(order) THEN "InvalidSignature"
    ELSE IF order.transfer.interop_tx_id \in shard_states[a][shard_id].processed_transfers
    THEN "CertificateAlreadyExists"
    ELSE IF escrow \notin {"true", "false"} THEN escrow
    ELSE IF escrow = "false" THEN "InvalidTransferAmount"
    ELSE "Signed"

\* the oracle is consulted only when the four earlier checks passed
EscrowConsulted(a, order, shard_id) ==
    HandleOrderResult(a, order, shard_id, "true") = "Signed"

\* mutation: the order is recorded as pending before the oracle is asked
HandleOrderStatesInsertEarly(a, order, shard_id, escrow) ==
    IF HandleOrderResult(a, order, shard_id, "true") = "Signed"
    THEN [shard_states EXCEPT ![a][shard_id].pending_transfers =
              MapInsert(@, order.transfer.interop_tx_id, order)]
    ELSE shard_states

\* mutation: the vote is returned without recording the order as pending
HandleOrderStatesNoInsert(a, order, shard_id, escrow) == shard_states

\* BridgeAuthorityState::handle_cross_chain_transfer_order: the shard states
\* after the call (pending_transfers.insert on success, nothing otherwise)
HandleOrderStates(a, order, shard_id, escrow) ==
    IF HandleOrderResult(a, order, shard_id, escrow) = "Signed"
    THEN [shard_states EXCEPT ![a][shard_id].pending_transfers =
              MapInsert(@, order.transfer.interop_tx_id, order)]
    ELSE shard_states

\* SignedCrossChainTransferOrder::new on the success path: the signatures
\* in existence after the call
HandleOrderSigs(a, order, shard_id, escrow) ==
    IF HandleOrderResult(a, order, shard_id, escrow) = "Signed"
    THEN sigs \cup {SignatureNew(order.transfer, a)}
    ELSE sigs

\* BridgeAuthorityState::handle_cross_chain_transfer_order
HandleOrder(a, order, shard_id, escrow) ==
    /\ reply' = HandleOrderResult(a, order, shard_id, escrow)
    /\ escrow_ok' = IF EscrowConsulted(a, order, shard_id) /\ escrow = "true"
                    THEN escrow_ok \cup {<<a, order.transfer>>}
                    ELSE escrow_ok
    /\ shard_states' = HandleOrderStates(a, order, shard_id, escrow)
    /\ sigs' = HandleOrderSigs(a, order, shard_id, escrow)
    /\ UNCHANGED <<voting_rights, byzantine, bus, updated, key_order, server_tasks>>

\* BridgeAuthorityState::handle_cross_shard_update: outcome
\* mutation: the certificate of an update is not checked
UpdateResultUnchecked(a, update) ==
    IF update.shard_id \notin DOMAIN shard_states[a] THEN "ShardStateNotFound"
    ELSE "Ok"

UpdateResult(a, update) ==
    IF update.shard_id \notin DOMAIN shard_states[a] THEN "ShardStateNotFound"
    ELSE CertCheck(update.transfer_certificate, voting_rights)

\* mutation: the id is marked processed and left in pending
ApplyUpdateKeepPending(states, a, update) ==
    LET id == update.transfer_certificate.value.transfer.interop_tx_id
    IN IF UpdateResult(a, update) = "Ok"
       THEN [states EXCEPT ![a][update.shard_id].processed_transfers = @ \cup {id}]
       ELSE states

\* mutation: the id is taken out of pending and not marked processed
ApplyUpdateNotProcessed(states, a, update) ==
    LET id == update.transfer_certificate.value.transfer.interop_tx_id
    IN IF UpdateResult(a, update) = "Ok"
       THEN [states EXCEPT ![a][update.shard_id].pending_transfers = MapRemove(@, id)]
       ELSE states

\* mutation: an update for an id already processed takes the id out again
ApplyUpdateToggle(states, a, update) ==
    LET id == update.transfer_certificate.value.transfer.interop_tx_id
    IN IF UpdateResult(a, update) = "Ok"
       THEN [states EXCEPT ![a][update.shard_id] =
                [processed_transfers |->
                     IF id \in @.processed_transfers
                     THEN @.processed_transfers \ {id}
                     ELSE @.processed_transfers \cup {id},
                 pending_transfers |-> MapRemove(@.pending_transfers, id)]]
       ELSE states

\* BridgeAuthorityState::handle_cross_shard_update: state after the call
ApplyUpdate(states, a, update) ==
    LET id == update.transfer_certificate.value.transfer.interop_tx_id
    IN IF UpdateResult(a, update) = "Ok"
       THEN [states EXCEPT ![a][update.shard_id] =
                [processed_transfers |-> @.processed_transfers \cup {id},
                 pending_transfers |-> MapRemove(@.pending_transfers, id)]]
       ELSE states

UpdatedAfter(a, update) ==
    IF UpdateResult(a, update) = "Ok"
    THEN updated \cup {<<a, update.shard_id,
                         update.transfer_certificate.value.transfer.interop_tx_id>>}
    ELSE updated

\* BridgeAuthorityState::propagate_certified_transfer: the updates are sent
\* in the iteration order of the shard map, which is unspecified
ShardOrders(S) ==
    {f \in [1 .. Cardinality(S) -> S] : \A i, j \in DOMAIN f : f[i] = f[j] => i = j}

\* mutation: only the first shard gets an update
PropagateUpdatesFirstOnly(cert, keys) ==
    [i \in DOMAIN keys \cap {1} |-> [shard_id |-> keys[i], transfer_certificate |-> cert]]

PropagateUpdates(cert, keys) ==
    [i \in DOMAIN keys |-> [shard_id |-> keys[i], transfer_certificate |-> cert]]

\* ---------------------------------------------------------- client inputs
EscrowAnswers == {"true", "false", "CommunicationError"}

\* the oracle answers only when it is asked
OracleAnswers(a, order, shard_id) ==
    IF EscrowConsulted(a, order, shard_id) THEN EscrowAnswers ELSE {"true"}

OrderInputs(U) ==
    UNION {{[transfer |-> t, signature |-> s] : s \in {SignatureNew(t, t.sender), BadSig}} :
           t \in U}

\* the signature of authority n over t is at hand
Available(n, t) == n \in byzantine \/ SignatureNew(t, n) \in sigs

RECURSIVE SeqOfSet(_)
SeqOfSet(S) ==
    IF S = {} THEN <<>>
    ELSE LET n == CHOOSE x \in S : \A y \in S : x <= y
         IN <<n>> \o SeqOfSet(S \ {n})

Vote(n, t) == <<n, IF Available(n, t) THEN SignatureNew(t, n) ELSE BadSig>>

Votes(names, t) == [i \in DOMAIN names |-> Vote(names[i], t)]

Prefix(q, n) == SubSeq(q, 1, IF n < Len(q) THEN n ELSE Len(q))

\* certificates a client can present for a transfer: every signature at
\* hand; one signature short of a quorum; all members whether they signed or
\* not; an authority twice; a signer outside the committee; and every
\* signature at hand around an order whose inner signature is wrong
CertShapes(t) ==
    LET signers == SeqOfSet({n \in Members : Available(n, t)})
        all == SeqOfSet(Members)
    IN {[value |-> OrderNew(t), signatures |-> v] :
           v \in {Votes(signers, t),
                  Votes(Prefix(signers, QuorumThreshold(voting_rights) - 1), t),
                  Votes(all, t),
                  Votes(signers \o Prefix(signers, 1), t),
                  Votes(signers \o <<Stranger>>, t)}}
       \cup {[value |-> [transfer |-> t, signature |-> BadSig],
              signatures |-> Votes(signers, t)]}

CertInputs(U) == UNION {CertShapes(t) : t \in U}

\* ---------------------------------------------------------------- actions
\* a client submits an order to a shard of an honest authority
ClientOrder(U) ==
    \E a \in Honest, shard_id \in ShardIdInputs, order \in OrderInputs(U) :
        \E escrow \in OracleAnswers(a, order, shard_id) :
            HandleOrder(a, order, shard_id, escrow) /\ UNCHANGED <<relayer_vars, value_vars, transport_vars, server_vars>>

\* BridgeAuthorityState::handle_cross_shard_update
HandleUpdate(a, update) ==
    /\ shard_states' = ApplyUpdate(shard_states, a, update)
    /\ updated' = UpdatedAfter(a, update)
    /\ reply' = UpdateResult(a, update)
    /\ UNCHANGED <<voting_rights, byzantine, bus, sigs, escrow_ok, key_order, server_tasks>>

\* a CrossShardUpdate arrives from outside (server.rs, run_shard_server)
ClientUpdate(U) ==
    \E a \in Honest, shard_id \in ShardIdInputs, cert \in CertInputs(U) :
        /\ HandleUpdate(a, [shard_id |-> shard_id, transfer_certificate |-> cert])
        /\ UNCHANGED <<relayer_vars, value_vars, transport_vars, server_vars>>

\* the iteration order of a HashMap is fixed when the map is built and shows
\* only when the map is first iterated: it is chosen there and kept
KeyOrders(fixed, S) == IF fixed = <<>> THEN ShardOrders(S) ELSE {fixed}

\* the loop over shard_states.keys() runs only when the certificate passed
SendOrders(a, cert) ==
    IF CertCheck(cert, voting_rights) = "Ok"
    THEN KeyOrders(key_order[a], DOMAIN shard_states[a])
    ELSE {key_order[a]}

\* BridgeAuthorityState::propagate_certified_transfer
Propagate(a, cert, keys) ==
    LET res == CertCheck(cert, voting_rights)
    IN /\ res = "Ok" => Len(bus[a]) < MaxBacklog
       /\ reply' = res
       /\ bus' = IF res = "Ok"
                 THEN [bus EXCEPT ![a] = @ \o PropagateUpdates(cert, keys)]
                 ELSE bus
       /\ key_order' = [key_order EXCEPT ![a] = keys]
       /\ UNCHANGED <<voting_rights, byzantine, shard_states, sigs, escrow_ok, updated, server_tasks>>

\* a certificate arrives at a shard server of an honest authority
ClientCertificate(U) ==
    \E a \in Honest, cert \in CertInputs(U) :
        \E keys \in SendOrders(a, cert) : Propagate(a, cert, keys) /\ UNCHANGED <<relayer_vars, value_vars, transport_vars, server_vars>>

\* run_bridge_server creates the consumer of the bus as a future and awaits
\* it only after join_all over the shard servers has returned: the consumer
\* is polled once no shard server task is left
ConsumerPolled(a) == server_tasks[a] = {}

\* handle_cross_shard_updates: the consumer task applies the head of the bus
BusConsume ==
    \E a \in Honest :
        /\ ConsumerPolled(a)
        /\ bus[a] # <<>>
        /\ shard_states' = ApplyUpdate(shard_states, a, Head(bus[a]))
        /\ updated' = UpdatedAfter(a, Head(bus[a]))
        /\ bus' = [bus EXCEPT ![a] = Tail(@)]
        /\ UNCHANGED <<voting_rights, byzantine, sigs, escrow_ok, key_order, reply, server_tasks>>
        /\ UNCHANGED <<relayer_vars, value_vars, transport_vars, server_vars>>

EqualCommittee == [n \in AuthorityNames |-> 1]

\* ---------------------------------------------------------------- relayer
\* SignedCrossChainTransferOrder::new
SignedOrderNew(value, authority) ==
    [value |-> value, authority |-> authority,
     signature |-> SignatureNew(value.transfer, authority)]

\* SignedCrossChainTransferOrder::check
SignedOrderCheck(signed, rights) ==
    IF ~OrderCheckSignature(signed.value) THEN "InvalidSignature"
    ELSE IF Weight(rights, signed.authority) = 0 THEN "UnknownSigner"
    ELSE IF ~SignatureCheck(signed.signature, signed.value.transfer, signed.authority)
    THEN "InvalidSignature"
    ELSE "Ok"

\* CrossChainSignatureAggregator::new_unsafe
AggregatorNewUnsafe(value) ==
    [weight |-> 0, used_authorities |-> {},
     partial |-> [value |-> value, signatures |-> <<>>]]

\* mutation: try_new does not check the order
AggregatorTryNewUnchecked(value) ==
    [res |-> "Ok", agg |-> AggregatorNewUnsafe(value)]

\* CrossChainSignatureAggregator::try_new
AggregatorTryNew(value) ==
    IF OrderCheckSignature(value)
    THEN [res |-> "Ok", agg |-> AggregatorNewUnsafe(value)]
    ELSE [res |-> "InvalidSignature", agg |-> AggregatorNewUnsafe(value)]

\* mutation: the authority is remembered only once its weight is known to
\* be positive
AggregatorAppendInsertLate(agg, rights, authority, signature) ==
    IF ~SignatureCheck(signature, agg.partial.value.transfer, authority)
    THEN [agg |-> agg, res |-> "InvalidSignature"]
    ELSE IF authority \in agg.used_authorities
    THEN [agg |-> agg, res |-> "CertificateAuthorityReuse"]
    ELSE IF Weight(rights, authority) = 0
    THEN [agg |-> agg, res |-> "UnknownSigner"]
    ELSE LET next == [agg EXCEPT !.used_authorities = @ \cup {authority},
                                 !.weight = @ + Weight(rights, authority),
                                 !.partial.signatures =
                                     Append(@, <<authority, signature>>)]
         IN [agg |-> next,
             res |-> IF next.weight >= QuorumThreshold(rights)
                     THEN "Some" ELSE "None"]

\* mutation: an authority whose signature does not verify is remembered
AggregatorAppendMarkInvalid(agg, rights, authority, signature) ==
    IF ~SignatureCheck(signature, agg.partial.value.transfer, authority)
    THEN [agg |-> [agg EXCEPT !.used_authorities = @ \cup {authority}],
          res |-> "InvalidSignature"]
    ELSE IF authority \in agg.used_authorities
    THEN [agg |-> agg, res |-> "CertificateAuthorityReuse"]
    ELSE LET used == [agg EXCEPT !.used_authorities = @ \cup {authority}]
         IN IF Weight(rights, authority) = 0
            THEN [agg |-> used, res |-> "UnknownSigner"]
            ELSE LET next == [used EXCEPT !.weight = @ + Weight(rights, authority),
                                          !.partial.signatures =
                                              Append(@, <<authority, signature>>)]
                 IN [agg |-> next,
                     res |-> IF next.weight >= QuorumThreshold(rights)
                             THEN "Some" ELSE "None"]

\* mutation: append does not verify the signature
AggregatorAppendNoSignatureCheck(agg, rights, authority, signature) ==
    IF authority \in agg.used_authorities
    THEN [agg |-> agg, res |-> "CertificateAuthorityReuse"]
    ELSE LET used == [agg EXCEPT !.used_authorities = @ \cup {authority}]
         IN IF Weight(rights, authority) = 0
            THEN [agg |-> used, res |-> "UnknownSigner"]
            ELSE LET next == [used EXCEPT !.weight = @ + Weight(rights, authority),
                                          !.partial.signatures =
                                              Append(@, <<authority, signature>>)]
                 IN [agg |-> next,
                     res |-> IF next.weight >= QuorumThreshold(rights)
                             THEN "Some" ELSE "None"]

\* CrossChainSignatureAggregator::append: the aggregator after the call and
\* what the call returned ("Some" = Ok(Some(partial)), "None" = Ok(None))
AggregatorAppend(agg, rights, authority, signature) ==
    IF ~SignatureCheck(signature, agg.partial.value.transfer, authority)
    THEN [agg |-> agg, res |-> "InvalidSignature"]
    ELSE IF authority \in agg.used_authorities
    THEN [agg |-> agg, res |-> "CertificateAuthorityReuse"]
    ELSE LET used == [agg EXCEPT !.used_authorities = @ \cup {authority}]
         IN IF Weight(rights, authority) = 0
            THEN [agg |-> used, res |-> "UnknownSigner"]
            ELSE LET next == [used EXCEPT !.weight = @ + Weight(rights, authority),
                                          !.partial.signatures =
                                              Append(@, <<authority, signature>>)]
                 IN [agg |-> next,
                     res |-> IF next.weight >= QuorumThreshold(rights)
                             THEN "Some" ELSE "None"]

\* Relayer::create_certificate, the loop over pending.signed_orders in the
\* iteration order names
RECURSIVE CreateCertificateLoop(_, _, _, _, _)
CreateCertificateLoop(agg, rights, signed_orders, names, i) ==
    IF i > Len(names) THEN [res |-> "None", certificate |-> agg.partial]
    ELSE LET step == AggregatorAppend(agg, rights, names[i],
                                      signed_orders[names[i]].signature)
         IN IF step.res = "Some" THEN [res |-> "Some", certificate |-> step.agg.partial]
            ELSE IF step.res = "None"
            THEN CreateCertificateLoop(step.agg, rights, signed_orders, names, i + 1)
            ELSE [res |-> "Err", certificate |-> step.agg.partial]

\* Relayer::create_certificate
CreateCertificate(pending, rights, names) ==
    CreateCertificateLoop(AggregatorNewUnsafe(pending.order), rights,
                          pending.signed_orders, names, 1)

\* mutation: a second vote of the same authority is counted again
HandleSignedOrderRecount(pending_map, rights, signed) ==
    LET id == signed.value.transfer.interop_tx_id
    IN IF SignedOrderCheck(signed, rights) # "Ok" THEN pending_map
       ELSE IF id \notin DOMAIN pending_map THEN pending_map
       ELSE [pending_map EXCEPT
                ![id].weight = @ + Weight(rights, signed.authority),
                ![id].signed_orders = MapInsert(@, signed.authority, signed)]

\* Relayer::handle_signed_order: the pending map after the call
HandleSignedOrder(pending_map, rights, signed) ==
    LET id == signed.value.transfer.interop_tx_id
    IN IF SignedOrderCheck(signed, rights) # "Ok" THEN pending_map
       ELSE IF id \notin DOMAIN pending_map THEN pending_map
       ELSE IF signed.authority \in DOMAIN pending_map[id].signed_orders THEN pending_map
       ELSE [pending_map EXCEPT
                ![id].weight = @ + Weight(rights, signed.authority),
                ![id].signed_orders = MapInsert(@, signed.authority, signed)]

\* Relayer::process_transfer, the loop over the collected signed orders
RECURSIVE HandleSignedOrders(_, _, _, _)
HandleSignedOrders(pending_map, rights, signed_orders, i) ==
    IF i > Len(signed_orders) THEN pending_map
    ELSE HandleSignedOrders(HandleSignedOrder(pending_map, rights, signed_orders[i]),
                            rights, signed_orders, i + 1)

\* relayer.rs get_shard_id
RelayerGetShardId(t) == FirstByte(t.sender) % ShardModulus

\* Relayer::new: authority_clients[shard], one client for every entry of
\* the descriptor whatever its weight, in the order of the descriptor
AuthorityClients(shard_id) ==
    SeqOfSet({a \in DOMAIN voting_rights : shard_id \in DOMAIN shard_states[a]})

ClientShards == {s \in ShardIds : AuthorityClients(s) # <<>>}

\* Relayer::propagate_to_authorities: the clients in the order they are
\* contacted, for the iteration order keys of the shard map
RECURSIVE PropagationTargets(_, _)
PropagationTargets(keys, i) ==
    IF i > Len(keys) THEN <<>>
    ELSE [j \in DOMAIN AuthorityClients(keys[i]) |-> <<AuthorityClients(keys[i])[j], keys[i]>>]
         \o PropagationTargets(keys, i + 1)

\* the order the relayer builds in poll_source_chain
DummyOrder == OrderNew(TA)

NoCertificate == [value |-> DummyOrder, signatures |-> <<>>]

Request(a, shard_id, tag, body) ==
    [kind |-> "request", to |-> <<a, shard_id>>, tag |-> tag, body |-> body]

Reply(a, shard_id, tag, body) ==
    [kind |-> "reply", to |-> <<a, shard_id>>, tag |-> tag, body |-> body]

\* BridgeAuthorityState::new: one empty state per shard, an empty channel
AuthorityStateNew(shards) == [s \in shards |-> ShardStateNew]

\* Relayer::new
NoInstant == 0 - 1
NoWire == [kind |-> "none"]
NoLocal == [i |-> 0, signed_orders |-> <<>>, targets |-> <<>>, certificate |-> NoCertificate]

\* the value layer is not exercised
NoValues ==
    /\ v_cert = NoCertificate
    /\ v_agg = AggregatorNewUnsafe(DummyOrder)
    /\ v_pos = 0
    /\ v_append = "None"
    /\ v_check = "None"
    /\ m_votes = <<>>
    /\ m_result = NoKey

\* the client socket under study is not used and no response waits
NoTransport ==
    /\ t_calls = 0
    /\ t_waiting = FALSE
    /\ t_net = {}
    /\ t_sock = <<>>
    /\ t_last = <<0, 0>>
    /\ to_send = [a \in AuthorityNames |-> {}]
    /\ lock = [a \in AuthorityNames |-> {}]
    /\ in_closure = [a \in AuthorityNames |-> {}]

InitRelayer(intervals) ==
    /\ r_removed = <<>>
    /\ r_keys = <<>>
    /\ now = 0
    /\ polling_interval \in intervals
    /\ last_poll = NoInstant
    /\ relayer_pending = <<>>
    /\ r_pc = "poll"
    /\ r_local = NoLocal
    /\ wire = NoWire

InitAuthorityStates(shards) ==
    /\ shard_states = [a \in AuthorityNames |-> AuthorityStateNew(shards)]
    /\ bus = [a \in AuthorityNames |-> <<>>]
    /\ key_order = [a \in AuthorityNames |-> <<>>]
    /\ sigs = {}
    /\ escrow_ok = {}
    /\ updated = {}
    /\ reply = "None"

\* every shard server of every authority bound its socket and runs
InitAuthorities(shards) ==
    /\ InitAuthorityStates(shards)
    /\ server_tasks = [a \in AuthorityNames |-> shards]

\* now.duration_since(since) > Duration::from_secs(d).  The clock of the
\* model counts whole seconds: the seconds slept and the seconds waited for
\* slow replies; sleep lasts at least the interval and every round takes some
\* more time, so between two instants read in different rounds more time has
\* passed than the whole seconds counted in between
ElapsedMoreThan(since, d) == now > since /\ now - since >= d

\* Relayer::poll_source_chain, up to the first await of process_transfer:
\* at most one check of the source chain per PollThrottle seconds; the
\* transfer found is taken up unless its id is pending
PollSourceChain ==
    /\ r_pc = "poll"
    /\ IF last_poll = NoInstant \/ ElapsedMoreThan(last_poll, PollThrottle)
       THEN /\ last_poll' = now
            /\ IF DummyTxId \notin DOMAIN relayer_pending
               THEN /\ relayer_pending' =
                        MapInsert(relayer_pending, DummyTxId,
                                  [order |-> DummyOrder, signed_orders |-> <<>>,
                                   weight |-> 0, start_time |-> now])
                    /\ r_local' = [NoLocal EXCEPT !.i = 1]
                    /\ r_pc' = IF RelayerGetShardId(DummyOrder.transfer) \in ClientShards
                               THEN "order_send" ELSE "check"
               ELSE /\ r_pc' = "check"
                    /\ UNCHANGED <<relayer_pending, r_local>>
       ELSE /\ r_pc' = "check"
            /\ UNCHANGED <<last_poll, relayer_pending, r_local>>
    /\ UNCHANGED <<now, polling_interval, wire, r_removed, r_keys, lossy>>
    /\ UNCHANGED <<authority_vars, value_vars, transport_vars, server_vars>>

OrderClients == AuthorityClients(RelayerGetShardId(DummyOrder.transfer))

\* Relayer::process_transfer / send_transfer_order / UdpClient::send_recv:
\* the order goes out to the next client of the owning shard; send_to may
\* fail towards a faulty authority, and that client is then skipped
SendTransferOrder ==
    /\ r_pc = "order_send"
    /\ r_local.i <= Len(OrderClients)
    /\ LET a == OrderClients[r_local.i]
           shard_id == RelayerGetShardId(DummyOrder.transfer)
       IN \/ /\ wire' = Request(a, shard_id, "CrossChainTransferOrder", DummyOrder)
             /\ r_pc' = "order_recv"
             /\ UNCHANGED r_local
          \/ /\ a \in byzantine \/ lossy
             /\ r_local' = [r_local EXCEPT !.i = @ + 1]
             /\ UNCHANGED <<wire, r_pc>>
    /\ UNCHANGED <<now, polling_interval, last_poll, relayer_pending, r_removed, r_keys, lossy>>
    /\ UNCHANGED <<authority_vars, value_vars, transport_vars, server_vars>>

\* UdpClient::send_recv, recv_from: the call lasts until the reply arrives,
\* at once or after SlowReply seconds
SlowReply == 61
ReplyDelays == {d \in {0, SlowReply} : now + d <= MaxTime}

\* send_transfer_order after recv_from returned: a signed order is kept,
\* anything else is a CommunicationError and the client is skipped
RecvOrderReply ==
    /\ r_pc = "order_recv"
    /\ wire.kind = "reply"
    /\ \E d \in ReplyDelays : now' = now + d
    /\ r_local' = [r_local EXCEPT
                      !.i = @ + 1,
                      !.signed_orders =
                          IF wire.tag = "SignedCrossChainTransferOrder"
                          THEN Append(@, wire.body) ELSE @]
    /\ r_pc' = "order_send"
    /\ wire' = NoWire
    /\ UNCHANGED <<polling_interval, last_poll, relayer_pending, r_removed, r_keys, lossy>>
    /\ UNCHANGED <<authority_vars, value_vars, transport_vars, server_vars>>

\* Relayer::process_transfer after the loop over the clients: every signed
\* order collected goes through handle_signed_order
CollectSignedOrders ==
    /\ r_pc = "order_send"
    /\ r_local.i > Len(OrderClients)
    /\ relayer_pending' = HandleSignedOrders(relayer_pending, voting_rights,
                                             r_local.signed_orders, 1)
    /\ r_local' = NoLocal
    /\ r_pc' = "check"
    /\ UNCHANGED <<now, polling_interval, last_poll, wire, r_removed, r_keys, lossy>>
    /\ UNCHANGED <<authority_vars, value_vars, transport_vars, server_vars>>

\* Relayer::check_pending_transfers up to its first await: with a quorum of
\* weight the certificate is built (an aggregator error ends run()), without
\* one the entry is dropped once it is older than PendingTimeout
CheckPendingTransfers ==
    /\ r_pc = "check"
    /\ IF DummyTxId \notin DOMAIN relayer_pending
       THEN /\ r_pc' = "sleep"
            /\ UNCHANGED <<relayer_pending, r_local, r_keys, r_removed>>
       ELSE LET pending == relayer_pending[DummyTxId]
            IN IF pending.weight >= QuorumThreshold(voting_rights)
               THEN \E names \in ShardOrders(DOMAIN pending.signed_orders) :
                       LET made == CreateCertificate(pending, voting_rights, names)
                       IN IF made.res = "Some"
                          THEN \E keys \in KeyOrders(r_keys, ClientShards) :
                                  /\ r_pc' = "cert_send"
                                  /\ r_local' = [NoLocal EXCEPT
                                                    !.i = 1,
                                                    !.certificate = made.certificate,
                                                    !.targets = PropagationTargets(keys, 1)]
                                  /\ r_keys' = keys
                                  /\ UNCHANGED <<relayer_pending, r_removed>>
                          ELSE /\ r_pc' = IF made.res = "None" THEN "sleep" ELSE "failed"
                               /\ UNCHANGED <<relayer_pending, r_local, r_keys, r_removed>>
               ELSE /\ IF ElapsedMoreThan(pending.start_time, PendingTimeout)
                       THEN /\ relayer_pending' = MapRemove(relayer_pending, DummyTxId)
                            /\ r_removed' = MapInsert(r_removed, DummyTxId, "timed_out")
                       ELSE UNCHANGED <<relayer_pending, r_removed>>
                    /\ r_pc' = "sleep"
                    /\ UNCHANGED <<r_local, r_keys>>
    /\ UNCHANGED <<now, polling_interval, last_poll, wire, lossy>>
    /\ UNCHANGED <<authority_vars, value_vars, transport_vars, server_vars>>

\* Relayer::propagate_to_authorities / send_certified_order: the certificate
\* goes out to the next client; a failed send_to is logged and skipped
SendCertifiedOrder ==
    /\ r_pc = "cert_send"
    /\ r_local.i <= Len(r_local.targets)
    /\ LET a == r_local.targets[r_local.i][1]
           shard_id == r_local.targets[r_local.i][2]
       IN \/ /\ wire' = Request(a, shard_id, "CertifiedCrossChainTransferOrder",
                                r_local.certificate)
             /\ r_pc' = "cert_recv"
             /\ UNCHANGED r_local
          \/ /\ a \in byzantine \/ lossy
             /\ r_local' = [r_local EXCEPT !.i = @ + 1]
             /\ UNCHANGED <<wire, r_pc>>
    /\ UNCHANGED <<now, polling_interval, last_poll, relayer_pending, r_removed, r_keys, lossy>>
    /\ UNCHANGED <<authority_vars, value_vars, transport_vars, server_vars>>

\* send_certified_order after recv_from returned: any datagram will do
RecvCertReply ==
    /\ r_pc = "cert_recv"
    /\ wire.kind = "reply"
    /\ \E d \in ReplyDelays : now' = now + d
    /\ r_local' = [r_local EXCEPT !.i = @ + 1]
    /\ r_pc' = "cert_send"
    /\ wire' = NoWire
    /\ UNCHANGED <<polling_interval, last_poll, relayer_pending, r_removed, r_keys, lossy>>
    /\ UNCHANGED <<authority_vars, value_vars, transport_vars, server_vars>>

\* Relayer::check_pending_transfers after propagate_to_authorities returned:
\* the certified entry is removed
FinishPropagation ==
    /\ r_pc = "cert_send"
    /\ r_local.i > Len(r_local.targets)
    /\ relayer_pending' = MapRemove(relayer_pending, DummyTxId)
    /\ r_local' = NoLocal
    /\ r_pc' = "sleep"
    /\ r_removed' = MapInsert(r_removed, DummyTxId, "completed")
    /\ UNCHANGED <<now, polling_interval, last_poll, wire, r_keys, lossy>>
    /\ UNCHANGED <<authority_vars, value_vars, transport_vars, server_vars>>

\* Relayer::run: sleep(polling_interval), then the next round (see
\* ElapsedMoreThan for the time the rounds take beyond whole seconds)
Sleep ==
    /\ r_pc = "sleep"
    /\ now + polling_interval <= MaxTime
    /\ now' = now + polling_interval
    /\ r_pc' = "poll"
    /\ UNCHANGED <<polling_interval, last_poll, relayer_pending, r_local, wire, r_removed, r_keys, lossy>>
    /\ UNCHANGED <<authority_vars, value_vars, transport_vars, server_vars>>

\* UdpClient::send_recv: recv_from has no timeout; with no datagram on its
\* way the relayer stays in it for the rest of the observed time
WaitInRecv ==
    /\ r_pc \in {"order_recv", "cert_recv"}
    /\ wire.kind = "none"
    /\ \A a \in AuthorityNames : to_send[a] = {}
    /\ now < MaxTime
    /\ now' = MaxTime
    /\ UNCHANGED <<polling_interval, last_poll, relayer_pending, r_pc, r_local, r_removed, wire, r_keys, lossy>>
    /\ UNCHANGED <<authority_vars, value_vars, transport_vars, server_vars>>

\* the closure run_shard_server hands to UdpServer::run, its return value:
\* a signed order or an error for an order, an error for a rejected update
\* or certificate, nothing otherwise.  The server's escrow verifier always
\* answers true.
ShardServerResponse(a, shard_id, tag, body) ==
    IF tag = "CrossChainTransferOrder"
    THEN IF HandleOrderResult(a, body, shard_id, "true") = "Signed"
         THEN Reply(a, shard_id, "SignedCrossChainTransferOrder", SignedOrderNew(body, a))
         ELSE Reply(a, shard_id, "Error", DummyOrder)
    ELSE IF tag = "CertifiedCrossChainTransferOrder"
    THEN IF CertCheck(body, voting_rights) = "Ok"
         THEN NoWire
         ELSE Reply(a, shard_id, "Error", DummyOrder)
    ELSE IF tag = "CrossShardUpdate"
    THEN IF UpdateResult(a, body) = "Ok"
         THEN NoWire
         ELSE Reply(a, shard_id, "Error", DummyOrder)
    ELSE NoWire

\* the closure run_shard_server hands to UdpServer::run, the handler its
\* match arm calls on the locked authority state
ShardServerCall(a, shard_id, tag, body) ==
    IF tag = "CrossChainTransferOrder"
    THEN HandleOrder(a, body, shard_id, "true")
    ELSE IF tag = "CertifiedCrossChainTransferOrder"
    THEN \E keys \in SendOrders(a, body) : Propagate(a, body, keys)
    ELSE IF tag = "CrossShardUpdate"
    THEN HandleUpdate(a, body)
    ELSE UNCHANGED authority_vars

\* the closure run_shard_server hands to UdpServer::run, from its call to
\* its return: the match arm locks the authority, runs the handler and
\* drops the guard, with no await in between; a response is left for
\* UdpServer::run to send
ShardServerHandler(a, shard_id, tag, body) ==
    /\ lock[a] = {}
    /\ ShardServerCall(a, shard_id, tag, body)
    /\ UNCHANGED <<lock, in_closure>>
    /\ LET response == ShardServerResponse(a, shard_id, tag, body)
       IN to_send' = IF response = NoWire THEN to_send
                     ELSE [to_send EXCEPT ![a] = @ \cup {[request |-> tag,
                                                          response |-> response]}]

\* UdpServer::run between two datagrams: the shard server is back in
\* recv_from, it has no response left to send
Receiving(a, shard_id) == \A h \in to_send[a] : h.response.to # <<a, shard_id>>

\* run_shard_server: the shard server of an honest authority takes the
\* relayer's datagram and runs the handler
ServerHandle ==
    /\ wire.kind = "request"
    /\ wire.to[1] \notin byzantine
    /\ Receiving(wire.to[1], wire.to[2])
    /\ ShardServerHandler(wire.to[1], wire.to[2], wire.tag, wire.body)
    /\ wire' = NoWire
    /\ UNCHANGED <<now, polling_interval, last_poll, relayer_pending, r_pc, r_local, r_removed, r_keys, lossy>>
    /\ UNCHANGED <<value_vars, transport_vars>>

\* UdpServer::run, socket.send_to(&response, addr).await returns: the
\* response its handler returned is on its way, or send_to failed, the
\* error is logged and the response is dropped; either way the shard server
\* is back in recv_from
ServerSend ==
    \E a \in Honest : \E h \in to_send[a] :
        /\ \/ wire' = h.response
           \/ lossy /\ UNCHANGED wire
        /\ to_send' = [to_send EXCEPT ![a] = @ \ {h}]
        /\ UNCHANGED <<lock, in_closure>>
        /\ UNCHANGED <<now, polling_interval, last_poll, relayer_pending, r_pc, r_local, r_removed, r_keys, lossy>>
        /\ UNCHANGED <<authority_vars, value_vars, transport_vars>>

\* what a faulty authority may answer to an order: an error, its vote, or a
\* vote over another transfer that carries the same id
ByzantineReplies(a, shard_id) ==
    {Reply(a, shard_id, "Error", DummyOrder),
     Reply(a, shard_id, "SignedCrossChainTransferOrder", SignedOrderNew(DummyOrder, a)),
     Reply(a, shard_id, "SignedCrossChainTransferOrder", SignedOrderNew(OrderNew(TB), a))}

\* a faulty authority drops the datagram or answers as it likes
FaultyAuthority ==
    /\ wire.kind = "request"
    /\ wire.to[1] \in byzantine
    /\ \/ wire' = NoWire
       \/ wire' \in ByzantineReplies(wire.to[1], wire.to[2])
    /\ UNCHANGED <<now, polling_interval, last_poll, relayer_pending, r_pc, r_local, r_removed, r_keys, lossy>>
    /\ UNCHANGED <<authority_vars, value_vars, transport_vars, server_vars>>

RelayerStep ==
    \/ PollSourceChain
    \/ SendTransferOrder
    \/ RecvOrderReply
    \/ CollectSignedOrders
    \/ CheckPendingTransfers
    \/ SendCertifiedOrder
    \/ RecvCertReply
    \/ FinishPropagation
    \/ Sleep
    \/ WaitInRecv

\* four equal-weight authorities, up to two of them faulty
InitRelayerSpec ==
    /\ voting_rights = EqualCommittee
    /\ byzantine \in SUBSET {3, 4}
    /\ InitAuthorities(ShardIds)
    /\ InitRelayer(PollingIntervals)
    /\ lossy \in BOOLEAN
    /\ NoValues
    /\ NoTransport

NextRelayer ==
    \/ PollSourceChain
    \/ SendTransferOrder
    \/ RecvOrderReply
    \/ CollectSignedOrders
    \/ CheckPendingTransfers
    \/ SendCertifiedOrder
    \/ RecvCertReply
    \/ FinishPropagation
    \/ Sleep
    \/ WaitInRecv
    \/ ServerHandle
    \/ ServerSend
    \/ FaultyAuthority

\* the relayer's loop and the shard servers keep running, and so does the
\* bus consumer once it is polled; a faulty authority owes nothing
SpecRelayer ==
    /\ InitRelayerSpec
    /\ [][NextRelayer]_vars
    /\ WF_vars(RelayerStep)
    /\ WF_vars(ServerHandle)
    /\ WF_vars(ServerSend)
    /\ WF_vars(BusConsume)

\* ------------------------------------------------------------ server spec
\* the datagrams a shard server can receive: the three requests it handles,
\* the two other variants of BridgeMessage, and bytes that do not decode
ServerDatagrams(U) ==
    {[tag |-> "CrossChainTransferOrder", body |-> o] : o \in OrderInputs(U)}
    \cup {[tag |-> "CertifiedCrossChainTransferOrder", body |-> c] : c \in CertInputs(U)}
    \cup {[tag |-> "CrossShardUpdate", body |-> [shard_id |-> s, transfer_certificate |-> c]] :
             s \in ShardIdInputs, c \in CertInputs(U)}
    \cup {[tag |-> "SignedCrossChainTransferOrder", body |-> SignedOrderNew(DummyOrder, 1)],
          [tag |-> "Error", body |-> DummyOrder],
          [tag |-> "Undecodable", body |-> DummyOrder]}

\* run_shard_server: a running shard server that is back in recv_from
\* receives a datagram and its closure runs to the end (the closure has no
\* await and holds the lock from its entry to its return, see SpecLock); any
\* variant other than the three requests and any undecodable datagram is
\* dropped
ServerReceive(U) ==
    \E a \in Honest : \E shard_id \in server_tasks[a], d \in ServerDatagrams(U) :
        /\ Receiving(a, shard_id)
        /\ ShardServerHandler(a, shard_id, d.tag, d.body)
        /\ UNCHANGED <<relayer_vars, value_vars, transport_vars>>

\* run_bridge_server on one authority: each shard server either bound its
\* socket and runs for ever, or failed to bind and returned; the datagrams
\* are about the relayer's transfer
InitServer ==
    /\ voting_rights = EqualCommittee
    /\ byzantine = {2, 3, 4}
    /\ InitAuthorityStates(ShardIds)
    /\ server_tasks \in {[a \in AuthorityNames |-> IF a = 1 THEN S ELSE ShardIds] :
                            S \in SUBSET ShardIds}
    /\ InitRelayer({1})
    /\ lossy \in BOOLEAN
    /\ NoValues
    /\ NoTransport

NextServer ==
    \/ ServerReceive({TA})
    \/ ServerSend

\* a response is sent, and the bus consumer runs once it is polled
SpecServer ==
    /\ InitServer
    /\ [][NextServer]_vars
    /\ WF_vars(ServerSend)
    /\ WF_vars(BusConsume)

\* -------------------------------------------------------------- lock spec
\* the closure of run_shard_server statement by statement, to see what the
\* Mutex around the authority's state does.  The consumer of the bus,
\* handle_cross_shard_updates, takes the same lock around
\* handle_cross_shard_update; it is not polled while a shard server runs
\* (ConsumerPolled), and once it is polled nothing is on the bus.

\* the requests whose match arm locks the authority and calls a handler
HandledTags == {"CrossChainTransferOrder", "CertifiedCrossChainTransferOrder", "CrossShardUpdate"}

\* mutation: every shard server locks a Mutex of its own (the state is not
\* shared through one Arc<Mutex>), so a server enters whoever else is inside
ServerLockOwnMutex(U) ==
    \E a \in Honest : \E shard_id \in server_tasks[a], d \in ServerDatagrams(U) :
        /\ Receiving(a, shard_id)
        /\ \A h \in in_closure[a] : h.shard_id # shard_id
        /\ d.tag \in HandledTags
        /\ lock' = [lock EXCEPT ![a] = @ \cup {shard_id}]
        /\ in_closure' = [in_closure EXCEPT ![a] = @ \cup
                             {[shard_id |-> shard_id, request |-> d, ran |-> FALSE,
                               response |-> NoWire]}]
        /\ UNCHANGED to_send
        /\ UNCHANGED <<authority_vars, relayer_vars, value_vars, transport_vars>>

\* run_shard_server, entry of the closure: recv_from of a shard server
\* returned a datagram, it decodes to one of the three requests and
\* authority.lock() returns the guard, which it does once the lock is free;
\* any other variant and any undecodable datagram leaves the closure at
\* once with None, without the lock
ServerLock(U) ==
    \E a \in Honest : \E shard_id \in server_tasks[a], d \in ServerDatagrams(U) :
        /\ Receiving(a, shard_id)
        /\ \A h \in in_closure[a] : h.shard_id # shard_id
        /\ IF d.tag \in HandledTags
           THEN /\ lock[a] = {}
                /\ lock' = [lock EXCEPT ![a] = {shard_id}]
                /\ in_closure' = [in_closure EXCEPT ![a] = @ \cup
                                     {[shard_id |-> shard_id, request |-> d, ran |-> FALSE,
                                       response |-> NoWire]}]
           ELSE UNCHANGED <<lock, in_closure>>
        /\ UNCHANGED to_send
        /\ UNCHANGED <<authority_vars, relayer_vars, value_vars, transport_vars>>

\* run_shard_server, the call through the guard: the handler runs on the
\* authority's state and its result becomes the closure's response
ServerCall ==
    \E a \in Honest : \E h \in in_closure[a] :
        /\ ~h.ran
        /\ ShardServerCall(a, h.shard_id, h.request.tag, h.request.body)
        /\ in_closure' = [in_closure EXCEPT ![a] = (@ \ {h}) \cup
                             {[h EXCEPT !.ran = TRUE,
                                        !.response = ShardServerResponse(a, h.shard_id,
                                                        h.request.tag, h.request.body)]}]
        /\ UNCHANGED <<to_send, lock>>
        /\ UNCHANGED <<relayer_vars, value_vars, transport_vars>>

\* run_shard_server, end of the match arm: the guard is dropped and the
\* closure returns; UdpServer::run has the response to send, or is back in
\* recv_from after None
ServerReturn ==
    \E a \in Honest : \E h \in in_closure[a] :
        /\ h.ran
        /\ lock' = [lock EXCEPT ![a] = @ \ {h.shard_id}]
        /\ in_closure' = [in_closure EXCEPT ![a] = @ \ {h}]
        /\ to_send' = IF h.response = NoWire THEN to_send
                      ELSE [to_send EXCEPT ![a] = @ \cup {[request |-> h.request.tag,
                                                           response |-> h.response]}]
        /\ UNCHANGED <<authority_vars, relayer_vars, value_vars, transport_vars>>

NextLock ==
    \/ ServerLock({TA})
    \/ ServerCall
    \/ ServerReturn
    \/ ServerSend

SpecLock == InitServer /\ [][NextLock]_vars

\* ---------------------------------------------------------- value layer
\* committees of total weight 1, 2, 3, 4, 5, 7 and 10, one of them listing
\* an authority with no voting rights
ValueCommittees ==
    {[n \in {1} |-> 1],
     [n \in {1, 2} |-> 1],
     [n \in {1, 2, 3} |-> IF n = 3 THEN 1 ELSE 2],
     [n \in {1, 2, 3} |-> 1],
     [n \in {1, 2, 3} |-> IF n = 1 THEN 2 ELSE 1],
     [n \in {1, 2, 3, 4} |-> IF n = 4 THEN 0 ELSE IF n = 1 THEN 2 ELSE 1],
     EqualCommittee,
     [n \in {1, 2, 3} |-> IF n = 1 THEN 3 ELSE 2],
     [n \in {1, 2, 3} |-> IF n = 1 THEN 4 ELSE 3]}

\* the (authority, signature) pairs a certificate over t can list: any name
\* the committee knows or a stranger, with that name's signature over t or a
\* signature that does not verify
VotePairs(t) ==
    UNION {{<<n, SignatureNew(t, n)>>, <<n, BadSig>>} :
              n \in DOMAIN voting_rights \cup {Stranger}}

VoteSeqs(t) == UNION {[1 .. k -> VotePairs(t)] : k \in 0 .. MaxVotes}

\* an order signed by its sender and one whose signature does not verify
ValueOrders == {OrderNew(TC), [transfer |-> TC, signature |-> BadSig]}

\* any committee, any certificate over TC of at most MaxVotes signatures, and
\* a fresh aggregator for the certificate's order
InitValues ==
    /\ voting_rights \in ValueCommittees
    /\ byzantine = {}
    /\ InitAuthorities({0})
    /\ InitRelayer({1})
    /\ lossy = FALSE
    /\ v_cert \in {[value |-> o, signatures |-> v] : o \in ValueOrders, v \in VoteSeqs(TC)}
    /\ v_agg = AggregatorNewUnsafe(v_cert.value)
    /\ v_pos = 0
    /\ v_append = "None"
    /\ v_check = "None"
    /\ m_votes = <<>>
    /\ m_result = NoKey
    /\ NoTransport

\* CrossChainSignatureAggregator::append with the next signature of v_cert
AppendNext ==
    /\ v_pos < Len(v_cert.signatures)
    /\ LET vote == v_cert.signatures[v_pos + 1]
           step == AggregatorAppend(v_agg, voting_rights, vote[1], vote[2])
       IN /\ v_agg' = step.agg
          /\ v_append' = step.res
    /\ v_pos' = v_pos + 1
    /\ UNCHANGED <<v_cert, v_check, m_votes, m_result>>
    /\ UNCHANGED <<authority_vars, relayer_vars, transport_vars, server_vars>>

\* CertifiedCrossChainTransferOrder::check on v_cert
CheckCertificate ==
    /\ v_check = "None"
    /\ v_check' = CertCheck(v_cert, voting_rights)
    /\ UNCHANGED <<v_cert, v_agg, v_pos, v_append, m_votes, m_result>>
    /\ UNCHANGED <<authority_vars, relayer_vars, transport_vars, server_vars>>

NextValues ==
    \/ AppendNext
    \/ CheckCertificate

SpecValues == InitValues /\ [][NextValues]_vars

\* ----------------------------------------------------------- majority spec
VoteValues == {0, 1, 2}

\* any committee and any list of at most MaxVotes votes, each by a name the
\* committee knows or a stranger
InitMajority ==
    /\ voting_rights \in ValueCommittees
    /\ byzantine = {}
    /\ InitAuthorities({0})
    /\ InitRelayer({1})
    /\ lossy = FALSE
    /\ NoTransport
    /\ v_cert = NoCertificate
    /\ v_agg = AggregatorNewUnsafe(DummyOrder)
    /\ v_pos = 0
    /\ v_append = "None"
    /\ v_check = "None"
    /\ m_votes \in UNION {[1 .. k -> (DOMAIN voting_rights \cup {Stranger}) \X VoteValues] :
                             k \in 0 .. MaxVotes}
    /\ m_result = NoKey

\* Committee::get_strong_majority_lower_bound on m_votes
StrongMajority ==
    /\ m_result = NoKey
    /\ m_result' = GetStrongMajorityLowerBound(voting_rights, m_votes)
    /\ UNCHANGED <<v_cert, v_agg, v_pos, v_append, v_check, m_votes>>
    /\ UNCHANGED <<authority_vars, relayer_vars, transport_vars, server_vars>>

SpecMajority == InitMajority /\ [][StrongMajority]_vars

\* -------------------------------------------------------------- vote spec
\* the signed orders a client can hand to the relayer: by any name the
\* committee knows or a stranger, over the relayer's transfer or over
\* another transfer with the same id, with the name's signature or one that
\* does not verify; around an order whose own signature is wrong; and over a
\* transfer whose id is not pending
SignedInputs ==
    UNION {{SignedOrderNew(OrderNew(TA), n),
            SignedOrderNew(OrderNew(TB), n),
            [value |-> OrderNew(TA), authority |-> n, signature |-> BadSig]} :
              n \in DOMAIN voting_rights \cup {Stranger}}
    \cup {SignedOrderNew([transfer |-> TA, signature |-> BadSig], 1),
          SignedOrderNew(OrderNew(TC), 1)}

\* Relayer::process_transfer after the loop over the clients: the pending
\* entry is fresh and at most MaxVotes signed orders were collected
InitVotes ==
    /\ voting_rights \in ValueCommittees
    /\ byzantine = {}
    /\ InitAuthorities({0})
    /\ r_removed = <<>>
    /\ r_keys = <<>>
    /\ now = 0
    /\ polling_interval = 1
    /\ last_poll = 0
    /\ relayer_pending = MapInsert(<<>>, DummyTxId,
                                   [order |-> DummyOrder, signed_orders |-> <<>>,
                                    weight |-> 0, start_time |-> 0])
    /\ r_pc = "collect"
    /\ r_local \in {[NoLocal EXCEPT !.i = 1, !.signed_orders = q] :
                       q \in UNION {[1 .. k -> SignedInputs] : k \in 0 .. MaxVotes}}
    /\ wire = NoWire
    /\ lossy = FALSE
    /\ NoValues
    /\ NoTransport

\* Relayer::process_transfer, one turn of the loop over the collected
\* signed orders: handle_signed_order on the next one
HandleNextSignedOrder ==
    /\ r_pc = "collect"
    /\ r_local.i <= Len(r_local.signed_orders)
    /\ relayer_pending' = HandleSignedOrder(relayer_pending, voting_rights,
                                            r_local.signed_orders[r_local.i])
    /\ r_local' = [r_local EXCEPT !.i = @ + 1]
    /\ UNCHANGED <<now, polling_interval, last_poll, r_pc, wire, r_removed, r_keys, lossy>>
    /\ UNCHANGED <<authority_vars, value_vars, transport_vars, server_vars>>

SpecVotes == InitVotes /\ [][HandleNextSignedOrder]_vars

\* ------------------------------------------------------------ replica spec
\* one replica under study; the other committee members are environment
Init ==
    /\ voting_rights = EqualCommittee
    /\ byzantine = {2, 3, 4}
    /\ InitAuthorities(ShardIds)
    /\ InitRelayer({1})
    /\ lossy = FALSE
    /\ NoValues
    /\ NoTransport

Next ==
    \/ ClientOrder(Transfers)
    \/ ClientUpdate(Transfers)
    \/ ClientCertificate(Transfers)

Spec == Init /\ [][Next]_vars

\* a replica holds half of the votes of a committee of total weight 4,
\* another is listed without voting rights; the two faulty members together
\* stay below the quorum threshold
InitQuorum ==
    /\ voting_rights = [n \in AuthorityNames |-> IF n = 4 THEN 0 ELSE IF n = 1 THEN 2 ELSE 1]
    /\ byzantine = {2, 3}
    /\ InitAuthorities(ShardIds)
    /\ InitRelayer({1})
    /\ lossy = FALSE
    /\ NoValues
    /\ NoTransport

\* the clients submit orders, updates and certificates for the relayer's
\* transfer to the two replicas that are not faulty
NextQuorum ==
    \/ ClientOrder({TA})
    \/ ClientUpdate({TA})
    \/ ClientCertificate({TA})

SpecQuorum == InitQuorum /\ [][NextQuorum]_vars

\* ---------------------------------------------------------- committee spec
\* committees of total weight 4 (quorum 3, validity 2): a heavy member with
\* two light ones, a member holding a quorum alone, and four equal members
Committees == {[n \in {1, 2, 3} |-> IF n = 1 THEN 2 ELSE 1],
               [n \in {1, 2} |-> IF n = 1 THEN 3 ELSE 1],
               EqualCommittee}

\* any of these committees, any set of Byzantine members, every authority
\* started with a single shard
InitCommittee ==
    /\ voting_rights \in Committees
    /\ byzantine \in SUBSET {n \in DOMAIN voting_rights : voting_rights[n] > 0}
    /\ InitAuthorities({0})
    /\ InitRelayer({1})
    /\ lossy = FALSE
    /\ NoValues
    /\ NoTransport

NextCommittee ==
    \/ ClientOrder({TC})
    \/ ClientUpdate({TC})

SpecCommittee == InitCommittee /\ [][NextCommittee]_vars

\* -------------------------------------------------------------- nonce spec
\* mutation: the nonce is left out of the hashed bytes
InteropTxIdGenerateNoNonce(sender, amount, nonce) == <<sender, amount>>

\* InteropTxId::generate: the leading bytes of SHA-512 over the fields in
\* the order the hasher is fed.  The hash is taken as collision free and is
\* represented by the byte string it was computed from.
InteropTxIdGenerate(sender, amount, nonce) == <<sender, amount, nonce>>

\* a transfer whose id was generated from its contents
GeneratedTransfer(sender, amount, nonce) ==
    [sender |-> sender, amount |-> amount,
     interop_tx_id |-> InteropTxIdGenerate(sender, amount, nonce), nonce |-> nonce]

\* two transfers that differ only in nonce
TN0 == GeneratedTransfer(DummySenderSeedKey, DummyAmount, 0)
TN1 == GeneratedTransfer(DummySenderSeedKey, DummyAmount, 1)
NonceTransfers == {TN0, TN1}

\* one replica under study, as in Init
InitNonce ==
    /\ voting_rights = EqualCommittee
    /\ byzantine = {2, 3, 4}
    /\ InitAuthorities(ShardIds)
    /\ InitRelayer({1})
    /\ lossy = FALSE
    /\ NoValues
    /\ NoTransport

NextNonce ==
    \/ ClientOrder(NonceTransfers)
    \/ ClientUpdate(NonceTransfers)

SpecNonce == InitNonce /\ [][NextNonce]_vars

\* ---------------------------------------------------------- transport spec
\* a datagram carries the call whose request it is or answers; copy 0 is a
\* datagram the network has not duplicated, copies 1 and 2 are the outcome
\* of a duplication; a reply remembers which copy of the request it answers
Datagram(kind, call, request_copy, copy) ==
    [kind |-> kind, call |-> call, request_copy |-> request_copy, copy |-> copy]

\* UdpClient::send_recv up to the await of recv_from: send_to fails and the
\* call returns an error, or the request leaves and the call waits
SendRecvSend ==
    /\ ~t_waiting
    /\ t_calls < MaxCalls
    /\ t_calls' = t_calls + 1
    /\ \/ /\ t_net' = t_net \cup {Datagram("request", t_calls + 1, 0, 0)}
          /\ t_waiting' = TRUE
       \/ UNCHANGED <<t_net, t_waiting>>
    /\ UNCHANGED <<t_sock, t_last>>
    /\ UNCHANGED <<authority_vars, relayer_vars, value_vars, server_vars>>

\* UdpClient::send_recv, recv_from returns: the oldest datagram queued in the
\* socket is handed to the caller, whatever it answers and wherever it is from
SendRecvReturn ==
    /\ t_waiting
    /\ t_sock # <<>>
    /\ t_last' = <<t_calls, Head(t_sock).call>>
    /\ t_sock' = Tail(t_sock)
    /\ t_waiting' = FALSE
    /\ UNCHANGED <<t_calls, t_net>>
    /\ UNCHANGED <<authority_vars, relayer_vars, value_vars, server_vars>>

\* the authority whose shard server the client socket talks to
Peer == 1

\* UdpServer::run, one iteration up to the await of send_to: the server,
\* back in recv_from, receives a request and the handler returns a response
\* for the request's source address, or None
ServerRun ==
    \E d \in t_net :
        /\ d.kind = "request"
        /\ to_send[Peer] = {}
        /\ t_net' = t_net \ {d}
        /\ \/ to_send' = [to_send EXCEPT ![Peer] = {Datagram("reply", d.call, d.copy, 0)}]
           \/ UNCHANGED to_send
        /\ UNCHANGED <<t_calls, t_waiting, t_sock, t_last, lock, in_closure>>
        /\ UNCHANGED <<authority_vars, relayer_vars, value_vars>>

\* UdpServer::run, socket.send_to(&response, addr).await returns: the
\* response is in the network, or send_to failed and the error is logged;
\* either way the server is back in recv_from
ServerSent ==
    \E h \in to_send[Peer] :
        /\ \/ t_net' = t_net \cup {h}
           \/ UNCHANGED t_net
        /\ to_send' = [to_send EXCEPT ![Peer] = {}]
        /\ UNCHANGED <<t_calls, t_waiting, t_sock, t_last, lock, in_closure>>
        /\ UNCHANGED <<authority_vars, relayer_vars, value_vars>>

\* the network loses a datagram
NetLose ==
    \E d \in t_net :
        /\ t_net' = t_net \ {d}
        /\ UNCHANGED <<t_calls, t_waiting, t_sock, t_last>>
        /\ UNCHANGED <<authority_vars, relayer_vars, value_vars, server_vars>>

\* the network duplicates a datagram
NetDuplicate ==
    \E d \in t_net :
        /\ d.copy = 0
        /\ t_net' = (t_net \ {d}) \cup {[d EXCEPT !.copy = 1], [d EXCEPT !.copy = 2]}
        /\ UNCHANGED <<t_calls, t_waiting, t_sock, t_last>>
        /\ UNCHANGED <<authority_vars, relayer_vars, value_vars, server_vars>>

\* a reply reaches the client socket, after any delay and in any order
NetDeliver ==
    \E d \in t_net :
        /\ d.kind = "reply"
        /\ t_net' = t_net \ {d}
        /\ t_sock' = Append(t_sock, d)
        /\ UNCHANGED <<t_calls, t_waiting, t_last>>
        /\ UNCHANGED <<authority_vars, relayer_vars, value_vars, server_vars>>

InitTransport ==
    /\ voting_rights = EqualCommittee
    /\ byzantine = {}
    /\ InitAuthorities({0})
    /\ InitRelayer({1})
    /\ lossy = FALSE
    /\ NoValues
    /\ NoTransport

NextTransport ==
    \/ SendRecvSend
    \/ SendRecvReturn
    \/ ServerRun
    \/ ServerSent
    \/ NetLose
    \/ NetDuplicate
    \/ NetDeliver

SpecTransport == InitTransport /\ [][NextTransport]_vars

\* ------------------------------------------------------------------ claims
Processed(a, s) == shard_states[a][s].processed_transfers
Pending(a, s) == shard_states[a][s].pending_transfers

\* the authority has returned a signed order for id from shard s
Voted(a, s, id) ==
    \E t \in AllTransfers : /\ t.interop_tx_id = id
                         /\ InShard(t, s)
                         /\ SignatureNew(t, a) \in sigs

\* C2: in every shard of every authority, after any interleaving of the
\* three handlers, the processed set and the key set of pending are disjoint
C2_ProcessedPendingDisjoint ==
    \A a \in AuthorityNames : \A s \in DOMAIN shard_states[a] :
        Processed(a, s) \cap DOMAIN Pending(a, s) = {}

\* C2 witness: an id that was pending on a shard is now processed there,
\* by the update that was just applied
C2_Witness ==
    \E a \in AuthorityNames : \E s \in DOMAIN shard_states[a] : \E id \in Processed(a, s) :
        Voted(a, s, id) /\ reply = "Ok"

\* C3: PROCESSED is terminal: a processed id stays processed, is never put
\* back into pending, and every later handle_order for it that passes the
\* shard and signature checks is rejected with CertificateAlreadyExists
C3_ProcessedTerminal ==
    [][\A a \in AuthorityNames : \A s \in DOMAIN shard_states[a] : \A id \in Processed(a, s) :
          /\ id \in shard_states'[a][s].processed_transfers
          /\ id \notin DOMAIN shard_states'[a][s].pending_transfers
          /\ \A order \in OrderInputs(Transfers), escrow \in EscrowAnswers :
                (/\ order.transfer.interop_tx_id = id
                 /\ InShard(order.transfer, s)
                 /\ OrderCheckSignature(order))
                => /\ HandleOrderResult(a, order, s, escrow) = "CertificateAlreadyExists"
                   /\ (HandleOrder(a, order, s, escrow) => reply' = "CertificateAlreadyExists")]_vars

\* C3 witness: an order for a processed id was rejected
C3_Witness ==
    /\ reply = "CertificateAlreadyExists"
    /\ \E a \in AuthorityNames : \E s \in DOMAIN shard_states[a] : Processed(a, s) # {}

\* C4 as stated: after a successful handle_order for id on a shard, a later
\* handle_order for id there returns CertificateAlreadyExists iff an update
\* for id was applied, and a signed order otherwise
C4_AsStated ==
    \A a \in Honest : \A s \in DOMAIN shard_states[a] :
        \A order \in OrderInputs(Transfers), escrow \in EscrowAnswers :
           Voted(a, s, order.transfer.interop_tx_id)
           => /\ (HandleOrderResult(a, order, s, escrow) = "CertificateAlreadyExists"
                    <=> <<a, s, order.transfer.interop_tx_id>> \in updated)
              /\ (<<a, s, order.transfer.interop_tx_id>> \notin updated
                    => HandleOrderResult(a, order, s, escrow) = "Signed")

\* C4 amended: after a successful handle_order for id on a shard, a later
\* handle_order for id there that passes the shard and signature checks
\* returns CertificateAlreadyExists iff an update for id was applied;
\* otherwise it returns a signed order when the escrow oracle answers true,
\* InvalidTransferAmount when it answers false, and the oracle's error when
\* the oracle fails
C4_RevoteUnlessUpdated ==
    \A a \in Honest : \A s \in DOMAIN shard_states[a] :
        \A order \in OrderInputs(Transfers), escrow \in EscrowAnswers :
           (/\ Voted(a, s, order.transfer.interop_tx_id)
            /\ InShard(order.transfer, s)
            /\ OrderCheckSignature(order))
           => /\ (HandleOrderResult(a, order, s, escrow) = "CertificateAlreadyExists"
                    <=> <<a, s, order.transfer.interop_tx_id>> \in updated)
              /\ (<<a, s, order.transfer.interop_tx_id>> \notin updated =>
                    HandleOrderResult(a, order, s, escrow) =
                        (CASE escrow = "true" -> "Signed"
                           [] escrow = "false" -> "InvalidTransferAmount"
                           [] OTHER -> escrow))

\* C4 witness: the authority voted for an id, an update for it was applied,
\* and a later order for it was rejected
C4_Witness ==
    \E a \in AuthorityNames : \E s \in DOMAIN shard_states[a] : \E id \in TxIds :
        /\ Voted(a, s, id)
        /\ <<a, s, id>> \in updated
        /\ reply = "CertificateAlreadyExists"

\* C10: a handle_order rejected with WrongShard, and more generally every
\* rejected handle_order, leaves pending and processed of all shards unchanged
C10_RejectedOrderNoEffect ==
    \A a \in Honest : \A s \in ShardIdInputs :
        \A order \in OrderInputs(Transfers), escrow \in EscrowAnswers :
           /\ (HandleOrderResult(a, order, s, escrow) # "Signed"
                 => HandleOrderStates(a, order, s, escrow) = shard_states)
           /\ (~InShard(order.transfer, s)
                 => HandleOrderResult(a, order, s, escrow) = "WrongShard")

\* C10 witness: an order was rejected with WrongShard while a shard holds state
C10_Witness ==
    /\ reply = "WrongShard"
    /\ \E a \in AuthorityNames : \E s \in DOMAIN shard_states[a] :
          DOMAIN Pending(a, s) # {} \/ Processed(a, s) # {}

\* the certificates that can be assembled for transfer t from the signatures
\* in existence, one for every set of members
ExistingCerts(t) ==
    {[value |-> OrderNew(t), signatures |-> Votes(SeqOfSet(S), t)] : S \in SUBSET Members}

ValidCertExists(t) == \E cert \in ExistingCerts(t) : CertCheck(cert, voting_rights) = "Ok"

ByzantineWeight == SumWeights(voting_rights, byzantine)

\* C1: when the Byzantine weight is below the validity threshold, a
\* certificate that passes check exists for a transfer only if an honest
\* authority handled its order with the escrow oracle answering true
C1_CertificateNeedsEscrow ==
    \A t \in AllTransfers :
        (ValidCertExists(t) /\ ByzantineWeight < ValidityThreshold(voting_rights))
        => \E a \in Honest : <<a, t>> \in escrow_ok

\* C1 witness: a valid certificate exists while one member is Byzantine
C1_Witness ==
    /\ ValidCertExists(TC)
    /\ byzantine # {}
    /\ ByzantineWeight < ValidityThreshold(voting_rights)

\* ---------------------------------------------------------- relayer claims
\* every authority has the relayer's transfer processed on every one of its
\* shards and nothing pending
AllProcessed ==
    \A a \in Members : \A s \in DOMAIN shard_states[a] :
        DummyTxId \in Processed(a, s) /\ DOMAIN Pending(a, s) = {}

\* the relayer holds a certificate it built and the certificate passes check
Certified ==
    /\ r_pc \in {"cert_send", "cert_recv"}
    /\ CertCheck(r_local.certificate, voting_rights) = "Ok"

\* no faulty authority has a reply on the wire
FaultySilent == wire.kind = "reply" => wire.to[1] \notin byzantine

\* C5: with four equal-weight authorities that all respond and a transport
\* that delivers, the transfer the relayer discovers is eventually processed
\* on every shard of every authority, with nothing left pending
C5_HappyPath == (byzantine = {} /\ ~lossy) => <>AllProcessed

\* C6: with four equal-weight authorities of which one never replies, the
\* relayer eventually holds a certificate that passes check
C6_QuorumDespiteSilentAuthority ==
    (Cardinality(byzantine) = 1 /\ ~lossy /\ []FaultySilent) => <>Certified

\* C7: with at most validity_threshold failed authorities in an
\* equal-weight committee the relayer eventually certifies the transfer it
\* discovered
C7_ProgressUpToValidityThreshold ==
    (Cardinality(byzantine) <= ValidityThreshold(voting_rights) /\ ~lossy) => <>Certified

\* C8: an entry without quorum is removed by the first check round after it
\* has been pending for more than 300 seconds, so no such entry is ever older
\* than the timeout plus one polling interval
C8_TimeoutDrops ==
    \A id \in DOMAIN relayer_pending :
        relayer_pending[id].weight < QuorumThreshold(voting_rights)
        => now - relayer_pending[id].start_time <= PendingTimeout + polling_interval

\* a step of poll_source_chain that looked at the source chain
Discovery ==
    /\ r_pc = "poll"
    /\ r_pc' # "poll"
    /\ last_poll = NoInstant \/ ElapsedMoreThan(last_poll, PollThrottle)

\* C9: a discovery of an id that is pending, or whose entry was removed
\* after certification, changes nothing and sends nothing; a discovery after
\* the entry timed out creates a new entry and dispatches the order
C9_RediscoveryReentrant ==
    [][Discovery =>
          /\ (DummyTxId \in DOMAIN relayer_pending
                => (relayer_pending' = relayer_pending /\ r_pc' = "check"))
          /\ ((/\ DummyTxId \notin DOMAIN relayer_pending
               /\ DummyTxId \in DOMAIN r_removed
               /\ r_removed[DummyTxId] = "completed")
                => (relayer_pending' = relayer_pending /\ r_pc' = "check"))
          /\ ((/\ DummyTxId \notin DOMAIN relayer_pending
               /\ DummyTxId \in DOMAIN r_removed
               /\ r_removed[DummyTxId] = "timed_out")
                => (/\ DummyTxId \in DOMAIN relayer_pending'
                    /\ r_pc' = "order_send"))]_vars

\* ---------------------------------------------------- idempotence and frame
UpdateInputs(U) ==
    {[shard_id |-> s, transfer_certificate |-> cert] :
        s \in ShardIdInputs, cert \in CertInputs(U)}

\* C11: from every reachable state, applying the same cross-shard update
\* twice leaves exactly the shard state that applying it once leaves
C11_UpdateIdempotent ==
    \A a \in Honest : \A update \in UpdateInputs(Transfers) :
        ApplyUpdate(ApplyUpdate(shard_states, a, update), a, update)
            = ApplyUpdate(shard_states, a, update)

\* C11 witness: an accepted update moved a pending id to processed, and the
\* same update is still accepted and changes nothing
C11_Witness ==
    /\ reply = "Ok"
    /\ \E a \in Honest : \E update \in UpdateInputs(Transfers) :
          LET id == update.transfer_certificate.value.transfer.interop_tx_id
          IN /\ UpdateResult(a, update) = "Ok"
             /\ <<a, update.shard_id, id>> \in updated
             /\ Voted(a, update.shard_id, id)
             /\ id \in Processed(a, update.shard_id)
             /\ ApplyUpdate(shard_states, a, update) = shard_states

\* C12: whenever handle_order succeeds for an id that is already a key of
\* pending on that shard, the order stored after the call has the transfer
\* contents of the order stored before it, which is also the content of the
\* signed order the earlier call returned
C12_PendingReplaceIdempotent ==
    \A a \in Honest : \A s \in DOMAIN shard_states[a] :
        \A order \in OrderInputs(Transfers), escrow \in EscrowAnswers :
           LET id == order.transfer.interop_tx_id
           IN (/\ HandleOrderResult(a, order, s, escrow) = "Signed"
               /\ id \in DOMAIN Pending(a, s))
              => /\ HandleOrderStates(a, order, s, escrow)[a][s].pending_transfers[id].transfer
                       = Pending(a, s)[id].transfer
                 /\ SignedOrderNew(order, a).value.transfer = Pending(a, s)[id].transfer

\* ------------------------------------------------------- value-layer claims
\* the authorities a certificate lists
Signers(c) == {c.signatures[i][1] : i \in DOMAIN c.signatures}

\* an authority is listed more than once
ListsTwice(c) ==
    \E i, j \in DOMAIN c.signatures : i # j /\ c.signatures[i][1] = c.signatures[j][1]

\* C13: in a certificate that passes check the authorities are pairwise
\* distinct, each has positive weight and their weights sum to at least the
\* quorum threshold; a certificate listing an authority twice fails check
C13_CheckedCertificateShape ==
    /\ v_check \in {"None", CertCheck(v_cert, voting_rights)}
    /\ CertCheck(v_cert, voting_rights) = "Ok"
         => /\ ~ListsTwice(v_cert)
            /\ \A n \in Signers(v_cert) : Weight(voting_rights, n) > 0
            /\ Signers(v_cert) \subseteq DOMAIN voting_rights
            /\ SumWeights(voting_rights, Signers(v_cert) \cap DOMAIN voting_rights)
                   >= QuorumThreshold(voting_rights)
    /\ ListsTwice(v_cert) => CertCheck(v_cert, voting_rights) # "Ok"

\* C13 witness: check accepted a certificate of three signatures
C13_Witness == v_check = "Ok" /\ Len(v_cert.signatures) = 3

\* the authorities listed are distinct committee members
DistinctMembers(c) ==
    ~ListsTwice(c) /\ \A n \in Signers(c) : Weight(voting_rights, n) > 0

\* the weight of the authorities listed
CertWeight(c) == SumWeights(voting_rights, Signers(c) \cap DOMAIN voting_rights)

\* the order's signature and every listed signature verify
AllSignaturesValid(c) ==
    VerifyBatch(c.value.transfer,
                <<<<c.value.transfer.sender, c.value.signature>>>> \o c.signatures)

\* C14: check accepts a certificate of distinct members with valid
\* signatures whose weight is exactly the quorum threshold and rejects one of
\* weight quorum - 1 with CertificateRequiresQuorum; an accepted append
\* returns a certificate exactly when the accumulated weight has reached the
\* quorum threshold, so at quorum it does and at quorum - 1 it does not
C14_QuorumTight ==
    /\ (/\ DistinctMembers(v_cert)
        /\ AllSignaturesValid(v_cert)
        /\ CertWeight(v_cert) = QuorumThreshold(voting_rights))
       => CertCheck(v_cert, voting_rights) = "Ok"
    /\ (/\ DistinctMembers(v_cert)
        /\ CertWeight(v_cert) = QuorumThreshold(voting_rights) - 1)
       => CertCheck(v_cert, voting_rights) = "CertificateRequiresQuorum"
    /\ (v_append \in {"Some", "None"} /\ v_pos > 0)
       => /\ v_agg.weight = QuorumThreshold(voting_rights) => v_append = "Some"
          /\ v_agg.weight = QuorumThreshold(voting_rights) - 1 => v_append = "None"
          /\ v_append = "Some" <=> v_agg.weight >= QuorumThreshold(voting_rights)

\* C14 witness: check accepted a certificate of exactly quorum weight and the
\* append of its last signature returned the certificate
C14_Witness ==
    /\ v_check = "Ok"
    /\ CertWeight(v_cert) = QuorumThreshold(voting_rights)
    /\ v_pos = Len(v_cert.signatures)
    /\ v_append = "Some"
    /\ v_agg.weight = QuorumThreshold(voting_rights)

\* the sum of the voting rights, member by member in name order
RECURSIVE SumInOrder(_, _)
SumInOrder(rights, names) ==
    IF names = <<>> THEN 0
    ELSE rights[Head(names)] + SumInOrder(rights, Tail(names))

\* C15: with total the sum of all voting rights, quorum_threshold is
\* floor(2 * total / 3) + 1 and validity_threshold is floor((total + 2) / 3):
\* q - 1 is the largest integer with 3 * (q - 1) <= 2 * total and v the
\* largest with 3 * v <= total + 2; for totals 1, 3, 4, 7 and 10 the pairs
\* are (1, 1), (3, 1), (3, 2), (5, 3) and (7, 4)
C15_Thresholds ==
    LET total == SumInOrder(voting_rights, SeqOfSet(DOMAIN voting_rights))
        q == QuorumThreshold(voting_rights)
        v == ValidityThreshold(voting_rights)
    IN /\ TotalVotes(voting_rights) = total
       /\ 3 * (q - 1) <= 2 * total /\ 2 * total < 3 * q
       /\ 3 * v <= total + 2 /\ total + 2 < 3 * (v + 1)
       /\ total = 1 => <<q, v>> = <<1, 1>>
       /\ total = 3 => <<q, v>> = <<3, 1>>
       /\ total = 4 => <<q, v>> = <<3, 2>>
       /\ total = 7 => <<q, v>> = <<5, 3>>
       /\ total = 10 => <<q, v>> = <<7, 4>>

\* C15 witness: a committee of total weight 10 whose certificate of weight 7
\* was accepted by check
C15_Witness ==
    /\ TotalVotes(voting_rights) = 10
    /\ v_check = "Ok"
    /\ CertWeight(v_cert) = 7

\* --------------------------------------------------------------- frame claim
\* where an id stands on a shard of an authority in the given shard states
Status(states, a, s, id) ==
    IF id \in states[a][s].processed_transfers THEN "PROCESSED"
    ELSE IF id \in DOMAIN states[a][s].pending_transfers THEN "PENDING"
    ELSE "NONE"

\* the two states agree on every id other than id, on every shard
SameElsewhere(before, after, id) ==
    \A a \in AuthorityNames : \A s \in DOMAIN before[a] :
        \A other \in {t.interop_tx_id : t \in NonceTransfers} \ {id} :
            Status(after, a, s, other) = Status(before, a, s, other)

\* C16: two transfers that differ only in nonce have different ids; a
\* handle_order or handle_cross_shard_update for one id leaves the status of
\* every other id unchanged on every shard; and whether an id can be voted
\* on or processed depends on that id's own status only
C16_NonceIndependence ==
    /\ TN0.interop_tx_id # TN1.interop_tx_id
    /\ \A a \in Honest : \A s \in ShardIdInputs :
          \A order \in OrderInputs(NonceTransfers), escrow \in EscrowAnswers :
             /\ SameElsewhere(shard_states, HandleOrderStates(a, order, s, escrow),
                              order.transfer.interop_tx_id)
             /\ (/\ s \in DOMAIN shard_states[a]
                 /\ InShard(order.transfer, s)
                 /\ OrderCheckSignature(order)
                 /\ escrow = "true")
                => (HandleOrderResult(a, order, s, escrow) = "Signed"
                      <=> Status(shard_states, a, s, order.transfer.interop_tx_id) # "PROCESSED")
    /\ \A a \in Honest : \A update \in UpdateInputs(NonceTransfers) :
          LET id == update.transfer_certificate.value.transfer.interop_tx_id
          IN /\ SameElsewhere(shard_states, ApplyUpdate(shard_states, a, update), id)
             /\ UpdateResult(a, update) = "Ok"
                  => Status(ApplyUpdate(shard_states, a, update), a, update.shard_id, id)
                         = "PROCESSED"

\* C16 witness: on one shard the transfer of nonce 1 is processed while the
\* transfer of nonce 0, voted on earlier, is still pending
C16_Witness ==
    \E a \in Honest : \E s \in DOMAIN shard_states[a] :
        /\ Status(shard_states, a, s, TN1.interop_tx_id) = "PROCESSED"
        /\ Status(shard_states, a, s, TN0.interop_tx_id) = "PENDING"
        /\ SignatureNew(TN0, a) \in sigs
        /\ SignatureNew(TN1, a) \in sigs

\* ----------------------------------------------------------- transport claim
\* C17: every reply a call of send_recv returns is the reply to the request
\* that same call issued on the socket
C17_SingleFlight == t_last[1] = t_last[2]

\* ------------------------------------------------------ error-handling claims
\* the checks of handle_order an order fails, each taken on its own, as
\* positions in the order WrongShard, ShardStateNotFound, InvalidSignature,
\* CertificateAlreadyExists, InvalidTransferAmount
FailedChecks(a, order, s, escrow) ==
    {i \in 1 .. 5 :
        \/ i = 1 /\ GetShardId(order.transfer) # s
        \/ i = 2 /\ s \notin DOMAIN shard_states[a]
        \/ i = 3 /\ ~SignatureCheck(order.signature, order.transfer, order.transfer.sender)
        \/ i = 4 /\ s \in DOMAIN shard_states[a]
                 /\ order.transfer.interop_tx_id \in Processed(a, s)
        \/ i = 5 /\ escrow = "false"}

Rejections ==
    <<"WrongShard", "ShardStateNotFound", "InvalidSignature",
      "CertificateAlreadyExists", "InvalidTransferAmount">>

\* C18: an order that fails one or more of the checks of handle_order is
\* rejected with the error of the first check it fails in the order
\* WrongShard, ShardStateNotFound, InvalidSignature,
\* CertificateAlreadyExists, InvalidTransferAmount (escrow refused)
C18_RejectionPrecedence ==
    \A a \in Honest : \A s \in ShardIdInputs :
        \A order \in OrderInputs(Transfers), escrow \in {"true", "false"} :
           LET failed == FailedChecks(a, order, s, escrow)
           IN IF failed = {} THEN HandleOrderResult(a, order, s, escrow) = "Signed"
              ELSE HandleOrderResult(a, order, s, escrow) =
                       Rejections[CHOOSE i \in failed : \A j \in failed : i <= j]

\* C18 witness: an order with a wrong signature for a processed id was
\* rejected with InvalidSignature
C18_Witness ==
    /\ reply = "InvalidSignature"
    /\ \E a \in Honest : \E s \in DOMAIN shard_states[a] : \E order \in OrderInputs(Transfers) :
          /\ {3, 4} \subseteq FailedChecks(a, order, s, "false")
          /\ HandleOrderResult(a, order, s, "false") = "InvalidSignature"

\* C19: when the escrow oracle is consulted and returns false or fails with
\* an error, handle_order rejects with InvalidTransferAmount, returns no
\* vote and inserts nothing into pending
C19_OracleRefusal ==
    \A a \in Honest : \A s \in ShardIdInputs :
        \A order \in OrderInputs(Transfers), escrow \in EscrowAnswers \ {"true"} :
           EscrowConsulted(a, order, s)
           => /\ HandleOrderResult(a, order, s, escrow) = "InvalidTransferAmount"
              /\ HandleOrderSigs(a, order, s, escrow) = sigs
              /\ HandleOrderStates(a, order, s, escrow) = shard_states

\* the authorities whose pair the aggregator has recorded
Contributed == Signers(v_agg.partial)

\* the authorities given to append so far with a signature that verifies
PresentedValid ==
    {v_cert.signatures[i][1] : i \in {j \in 1 .. v_pos :
        SignatureCheck(v_cert.signatures[j][2], v_cert.value.transfer,
                       v_cert.signatures[j][1])}}

\* the pair was recorded and the authority's weight added
Recorded(step, authority, signature) ==
    /\ step.res \in {"Some", "None"}
    /\ step.agg.partial.signatures = Append(v_agg.partial.signatures, <<authority, signature>>)
    /\ step.agg.weight = v_agg.weight + Weight(voting_rights, authority)

\* C20 as stated, whatever the precedence among the three rejections: an
\* append for which a rejection condition holds is rejected with the error
\* of a condition that holds, and any other append records the pair and
\* adds the weight
C20_AsStated ==
    \A vote \in VotePairs(v_cert.value.transfer) :
        LET step == AggregatorAppend(v_agg, voting_rights, vote[1], vote[2])
            errors == {e \in {"CertificateAuthorityReuse", "UnknownSigner", "InvalidSignature"} :
                          \/ e = "CertificateAuthorityReuse" /\ vote[1] \in Contributed
                          \/ e = "UnknownSigner" /\ Weight(voting_rights, vote[1]) = 0
                          \/ e = "InvalidSignature"
                               /\ ~SignatureCheck(vote[2], v_cert.value.transfer, vote[1])}
        IN IF errors = {} THEN Recorded(step, vote[1], vote[2])
           ELSE step.res \in errors

\* C20 amended: append rejects with InvalidSignature if the signature does
\* not verify; else with CertificateAuthorityReuse if the authority was
\* given to append before with a signature that verified, whether that
\* append recorded it or rejected it as an unknown signer; else with
\* UnknownSigner if the authority has zero weight; otherwise it records the
\* pair and adds the weight.  A rejected append leaves weight and recorded
\* pairs unchanged, and the weight is that of the recorded authorities.
C20_AppendOutcome ==
    /\ v_agg.used_authorities = PresentedValid
    /\ Contributed = {n \in PresentedValid : Weight(voting_rights, n) > 0}
    /\ ~ListsTwice(v_agg.partial)
    /\ v_agg.weight = CertWeight(v_agg.partial)
    /\ \A vote \in VotePairs(v_cert.value.transfer) :
          LET step == AggregatorAppend(v_agg, voting_rights, vote[1], vote[2])
          IN IF ~SignatureCheck(vote[2], v_cert.value.transfer, vote[1])
             THEN step.res = "InvalidSignature" /\ step.agg = v_agg
             ELSE IF vote[1] \in PresentedValid
             THEN step.res = "CertificateAuthorityReuse" /\ step.agg = v_agg
             ELSE IF Weight(voting_rights, vote[1]) = 0
             THEN /\ step.res = "UnknownSigner"
                  /\ step.agg.weight = v_agg.weight
                  /\ step.agg.partial = v_agg.partial
             ELSE Recorded(step, vote[1], vote[2])

\* C20 witness: an authority without weight was given to append twice with
\* a valid signature and the second append answered CertificateAuthorityReuse
C20_Witness ==
    /\ v_pos >= 2
    /\ v_append = "CertificateAuthorityReuse"
    /\ Weight(voting_rights, v_cert.signatures[v_pos][1]) = 0
    /\ v_cert.signatures[v_pos][1] \notin Contributed

\* the aggregator under test is one try_new opens
OpenedByTryNew == AggregatorTryNew(v_cert.value).res = "Ok"

\* C21: for an aggregator opened with try_new, an accepted append
\* returns None while the accumulated weight is below the quorum threshold
\* and a certificate on the append at which the weight first reaches it and
\* on every accepted append after that; every certificate returned passes
\* check against the same committee
C21_CertificateAtQuorum ==
    [][(AppendNext /\ OpenedByTryNew)
          => /\ v_append' \in {"Some", "None"}
                  => (v_append' = "Some"
                        <=> v_agg'.weight >= QuorumThreshold(voting_rights))
             /\ (/\ v_agg.weight < QuorumThreshold(voting_rights)
                 /\ v_agg'.weight >= QuorumThreshold(voting_rights))
                  => v_append' = "Some"
             /\ v_append' = "Some" => CertCheck(v_agg'.partial, voting_rights) = "Ok"]_vars

\* C21 witness: an aggregator opened with try_new returned a certificate on
\* the append that took the weight from below the quorum threshold to it,
\* after an accepted append that returned None
C21_Witness ==
    /\ OpenedByTryNew
    /\ v_append = "Some"
    /\ v_pos = Len(v_agg.partial.signatures)
    /\ v_pos >= 2
    /\ v_agg.weight - Weight(voting_rights, v_cert.signatures[v_pos][1])
           < QuorumThreshold(voting_rights)

\* C22: get_strong_majority_lower_bound returns the largest value V such
\* that the authorities that cast a value >= V have weights summing to at
\* least the quorum threshold, and the default value when there is none
C22_StrongMajority ==
    LET casters(V) == {m_votes[i][1] : i \in {j \in DOMAIN m_votes : m_votes[j][2] >= V}}
        supported == {V \in VoteValues :
                         SumWeights(voting_rights, casters(V) \cap DOMAIN voting_rights)
                             >= QuorumThreshold(voting_rights)}
    IN m_result # NoKey
       => m_result = IF supported = {} THEN DefaultValue
                     ELSE CHOOSE V \in supported : \A W \in supported : W <= V

\* ----------------------------------------------------------- bus claims
\* C23: propagate_certified_transfer returns the outcome of the
\* certificate's check; when the check fails nothing is enqueued; when it
\* succeeds exactly one update carrying the certificate is appended to the
\* authority's bus for every shard the authority manages; pending and
\* processed are not modified
C23_PropagateFrame ==
    [][\A a \in Honest : \A cert \in CertInputs(Transfers) : \A keys \in SendOrders(a, cert) :
          Propagate(a, cert, keys)
          => /\ shard_states' = shard_states
             /\ reply' = CertCheck(cert, voting_rights)
             /\ \A b \in AuthorityNames \ {a} : bus'[b] = bus[b]
             /\ CertCheck(cert, voting_rights) # "Ok" => bus'[a] = bus[a]
             /\ CertCheck(cert, voting_rights) = "Ok"
                  => LET new == SubSeq(bus'[a], Len(bus[a]) + 1, Len(bus'[a]))
                     IN /\ SubSeq(bus'[a], 1, Len(bus[a])) = bus[a]
                        /\ \A s \in DOMAIN shard_states[a] :
                              Cardinality({i \in DOMAIN new : new[i].shard_id = s}) = 1
                        /\ \A i \in DOMAIN new :
                              /\ new[i].shard_id \in DOMAIN shard_states[a]
                              /\ new[i].transfer_certificate = cert]_vars

\* C23 witness: a certificate was accepted and the bus of the authority
\* holds one update for each of its shards
C23_Witness ==
    /\ reply = "Ok"
    /\ \E a \in Honest :
          /\ Len(bus[a]) = Cardinality(DOMAIN shard_states[a])
          /\ {bus[a][i].shard_id : i \in DOMAIN bus[a]} = DOMAIN shard_states[a]
          /\ Cardinality(DOMAIN shard_states[a]) > 1

\* C24: in a running authority server every update that
\* propagate_certified_transfer put on the bus is eventually taken off it
\* by the consumer and handed to handle_cross_shard_update
C24_BusDrained ==
    \A a \in AuthorityNames : (bus[a] # <<>>) ~> (bus[a] = <<>>)

\* C25: updates leave the bus in the order in which they were enqueued: of
\* two updates on the bus the one enqueued first is applied first, while
\* the second is still waiting
C25_FifoApplied ==
    \A a \in AuthorityNames : \A s1, s2 \in ShardIds :
        (Len(bus[a]) = 2 /\ bus[a][1].shard_id = s1 /\ bus[a][2].shard_id = s2)
        ~> (Len(bus[a]) = 1 /\ bus[a][1].shard_id = s2 /\ <<a, s1, DummyTxId>> \in updated)

\* ---------------------------------------------------------- server claims
\* C29: a shard server sends no reply for a CrossShardUpdate or a
\* CertifiedCrossChainTransferOrder, whether its handler accepted or
\* rejected it; it answers a CrossChainTransferOrder with a signed order or
\* an error; every other datagram is dropped with no reply and no change of
\* the authority's state
C29_ServerReplies ==
    [][/\ \A a \in AuthorityNames : \A h \in to_send'[a] \ to_send[a] :
             /\ h.request = "CrossChainTransferOrder"
             /\ h.response.tag \in {"SignedCrossChainTransferOrder", "Error"}
       /\ \A a \in Honest : \A shard_id \in server_tasks[a] :
             \A d \in ServerDatagrams({TA}) :
                LET response == ShardServerResponse(a, shard_id, d.tag, d.body)
                IN IF d.tag = "CrossChainTransferOrder"
                   THEN response # NoWire
                   ELSE response = NoWire]_vars

\* C30: at most one handler executes on an authority's state at any time:
\* at most one shard server of an authority is inside its closure, and it
\* holds the authority's lock from its entry to its return (no server that
\* waits in recv_from or has a response to send holds it); and every
\* handler is atomic: while a shard server is inside its closure and does
\* not step itself, the authority's shard states and its bus do not change,
\* and they change only in the handler call of the server inside
C30_OneHandler ==
    /\ [](\A a \in AuthorityNames :
             /\ Cardinality(in_closure[a]) <= 1
             /\ lock[a] = {h.shard_id : h \in in_closure[a]}
             /\ \A h \in to_send[a] : h.response.to[2] \notin lock[a])
    /\ [][\A a \in AuthorityNames :
             /\ \A h \in in_closure[a] \cap in_closure'[a] :
                   shard_states'[a] = shard_states[a] /\ bus'[a] = bus[a]
             /\ (shard_states'[a] # shard_states[a] \/ bus'[a] # bus[a])
                   => \E h \in in_closure[a] :
                         /\ ~h.ran
                         /\ lock[a] = {h.shard_id}
                         /\ lock'[a] = lock[a]
                         /\ \E c \in in_closure'[a] : c.ran /\ c.shard_id = h.shard_id]_vars

\* C30 witness: both shard servers of the authority run; the handler of one
\* has returned a vote, which that server has still to send, and the other
\* server is inside its closure, its handler has run and marked the id
\* processed on the first server's shard, and it still holds the lock
C30_Witness ==
    /\ server_tasks[1] = ShardIds
    /\ \E h \in to_send[1] : \E c \in in_closure[1] :
          /\ h.response.tag = "SignedCrossChainTransferOrder"
          /\ c.shard_id # h.response.to[2]
          /\ c.ran
          /\ lock[1] = {c.shard_id}
          /\ DummyTxId \in Processed(1, h.response.to[2])

\* ------------------------------------------------------------ vote claims
\* C26: a signed order is stored only if its check passes (its signatures
\* verify and its authority has positive committee weight), each authority
\* is stored at most once per pending transfer, a response that does not
\* verify or names an authority already stored changes nothing, and the
\* weight of a pending transfer is the sum of the committee weights of the
\* authorities whose votes are stored
C26_VoteAccounting ==
    /\ [](\A id \in DOMAIN relayer_pending :
             LET stored == relayer_pending[id].signed_orders
             IN /\ relayer_pending[id].weight = SumWeights(voting_rights, DOMAIN stored)
                /\ \A n \in DOMAIN stored :
                      /\ stored[n].authority = n
                      /\ SignedOrderCheck(stored[n], voting_rights) = "Ok"
                      /\ Weight(voting_rights, n) > 0)
    /\ [][HandleNextSignedOrder
          => LET signed == r_local.signed_orders[r_local.i]
                 id == signed.value.transfer.interop_tx_id
             IN IF \/ SignedOrderCheck(signed, voting_rights) # "Ok"
                   \/ id \notin DOMAIN relayer_pending
                   \/ signed.authority \in DOMAIN relayer_pending[id].signed_orders
                THEN relayer_pending' = relayer_pending
                ELSE /\ DOMAIN relayer_pending'[id].signed_orders
                           = DOMAIN relayer_pending[id].signed_orders \cup {signed.authority}
                     /\ relayer_pending'[id].weight
                           = relayer_pending[id].weight + voting_rights[signed.authority]]_vars

\* C26 witness: the three signed orders collected were handled: two votes by
\* different authorities are stored, and the third, a second vote of a
\* stored authority, was dropped
C26_Witness ==
    /\ r_pc = "collect"
    /\ r_local.i = 4
    /\ Cardinality(DOMAIN relayer_pending[DummyTxId].signed_orders) = 2
    /\ r_local.signed_orders[3].authority = r_local.signed_orders[1].authority
    /\ SignedOrderCheck(r_local.signed_orders[3], voting_rights) = "Ok"

\* ------------------------------------------------- relayer claims, part two
\* C27: the relayer holds a certificate only for a pending entry whose
\* weight reached the quorum threshold; the entry of a certified transfer is
\* removed only after the broadcast went through every authority shard; and
\* once the certificate is built the entry is eventually removed
C27_CertifyThenRemove ==
    /\ [](r_pc \in {"cert_send", "cert_recv"}
            => /\ DummyTxId \in DOMAIN relayer_pending
               /\ relayer_pending[DummyTxId].weight >= QuorumThreshold(voting_rights))
    /\ [][(/\ DummyTxId \in DOMAIN relayer_pending
           /\ DummyTxId \notin DOMAIN relayer_pending'
           /\ relayer_pending[DummyTxId].weight >= QuorumThreshold(voting_rights))
          => (r_pc = "cert_send" /\ r_local.i > Len(r_local.targets))]_vars
    /\ (r_pc = "cert_send") ~> (DummyTxId \notin DOMAIN relayer_pending)

\* C28: when a round left the first pending entry without a quorum, so
\* that some authority's request failed, the relayer sends the order out
\* again in a later round while that entry is still pending
C28_RetryWhilePending ==
    (/\ r_pc = "check"
     /\ DummyTxId \in DOMAIN relayer_pending
     /\ relayer_pending[DummyTxId].start_time = 0
     /\ relayer_pending[DummyTxId].weight < QuorumThreshold(voting_rights))
    ~> (/\ r_pc \in {"order_send", "order_recv"}
        /\ DummyTxId \in DOMAIN relayer_pending
        /\ relayer_pending[DummyTxId].start_time = 0)

\* C31: the authority never deadlocks between certificate propagation and
\* the consumer of the bus: a shard server whose handler returned a response
\* can send it (the handler did not block on the bus), and whenever updates
\* wait on the bus or a response waits, a shard server or the consumer can
\* take a step
C31_NoDeadlock ==
    /\ (\E a \in Honest : to_send[a] # {}) => ENABLED ServerSend
    /\ (\E a \in Honest : bus[a] # <<>> \/ to_send[a] # {})
          => ENABLED (ServerSend \/ BusConsume)

\* --------------------------------------------------- shard state claims
\* C32: every entry of a shard's pending map holds an order whose sender
\* maps to that shard under the shard function, under the key that is the
\* interop_tx_id of the stored order's transfer
C32_PendingInShard ==
    \A a \in AuthorityNames : \A s \in DOMAIN shard_states[a] :
        \A id \in DOMAIN Pending(a, s) :
            /\ InShard(Pending(a, s)[id].transfer, s)
            /\ Pending(a, s)[id].transfer.interop_tx_id = id

\* C32 witness: a shard holds a pending order that replaced an earlier one
\* under the same id, and the last order was offered to another shard
C32_Witness ==
    /\ reply = "WrongShard"
    /\ \E a \in AuthorityNames : \E s \in DOMAIN shard_states[a] :
          \E id \in DOMAIN Pending(a, s) : Pending(a, s)[id].transfer = TB

\* C33: an id recorded by an authority, as a key of pending or as a member
\* of processed, is recorded in the maps of exactly one of its shards
C33_OneShardPerId ==
    \A a \in AuthorityNames : \A id \in TxIds :
        Cardinality({s \in DOMAIN shard_states[a] :
                        id \in DOMAIN Pending(a, s) \cup Processed(a, s)}) <= 1

\* C34: an id is in the processed set of a shard only if authorities whose
\* weights reach the quorum threshold have signed a transfer carrying that
\* id, and an id enters a processed set only in a step whose update passed
\* the certificate check
C34_ProcessedByQuorum ==
    /\ [](\A a \in AuthorityNames : \A s \in DOMAIN shard_states[a] : \A id \in Processed(a, s) :
             \E t \in AllTransfers :
                /\ t.interop_tx_id = id
                /\ SumWeights(voting_rights, {n \in Members : Available(n, t)})
                      >= QuorumThreshold(voting_rights))
    /\ [][\A a \in AuthorityNames : \A s \in DOMAIN shard_states[a] :
             Processed(a, s) # shard_states'[a][s].processed_transfers
             => /\ reply' = "Ok"
                /\ \E u \in updated' \ updated :
                      /\ u[1] = a /\ u[2] = s
                      /\ shard_states'[a][s].processed_transfers = Processed(a, s) \cup {u[3]}]_vars

\* C34 witness: with the faulty members below the quorum, an id is processed
\* on a shard of the replica, which has signed an order for it
C34_Witness ==
    /\ SumWeights(voting_rights, byzantine) < QuorumThreshold(voting_rights)
    /\ \E s \in DOMAIN shard_states[1] : \E t \in Transfers :
          /\ t.interop_tx_id \in Processed(1, s)
          /\ SignatureNew(t, 1) \in sigs

\* ----------------------------------------------------- aggregator claims
\* the errors append rejects with
AppendErrors == {"InvalidSignature", "CertificateAuthorityReuse", "UnknownSigner"}

\* C35 as stated: a rejected append leaves the aggregator unchanged, the
\* used authorities are the authorities of the recorded pairs, the weight is
\* the sum of their weights, and an append rejected once is rejected with
\* the same error when it is made again
C35_AsStated ==
    /\ v_agg.used_authorities = Signers(v_agg.partial)
    /\ v_agg.weight = CertWeight(v_agg.partial)
    /\ \A vote \in VotePairs(v_cert.value.transfer) :
          LET first == AggregatorAppend(v_agg, voting_rights, vote[1], vote[2])
              again == AggregatorAppend(first.agg, voting_rights, vote[1], vote[2])
          IN first.res \in AppendErrors
                => first.agg = v_agg /\ again.res = first.res

\* C35 amended: an append rejected with InvalidSignature or
\* CertificateAuthorityReuse leaves the aggregator unchanged and is rejected
\* with the same error when made again; an append rejected with
\* UnknownSigner adds the authority to the used authorities, changes nothing
\* else, and is rejected with CertificateAuthorityReuse when made again.
\* After any sequence of appends the recorded authorities are the used
\* authorities of positive weight and the weight is the sum of the weights
\* of the recorded authorities.
C35_RejectedAppend ==
    /\ Signers(v_agg.partial)
          = {n \in v_agg.used_authorities : Weight(voting_rights, n) > 0}
    /\ v_agg.weight = CertWeight(v_agg.partial)
    /\ \A vote \in VotePairs(v_cert.value.transfer) :
          LET first == AggregatorAppend(v_agg, voting_rights, vote[1], vote[2])
              again == AggregatorAppend(first.agg, voting_rights, vote[1], vote[2])
          IN /\ first.res \in {"InvalidSignature", "CertificateAuthorityReuse"}
                   => first.agg = v_agg /\ again.res = first.res
             /\ first.res = "UnknownSigner"
                   => /\ first.agg = [v_agg EXCEPT !.used_authorities = @ \cup {vote[1]}]
                      /\ vote[1] \notin v_agg.used_authorities
                      /\ again.res = "CertificateAuthorityReuse"
                      /\ again.agg = first.agg

\* C35 witness: after an accepted append, an append was rejected with
\* UnknownSigner and left an authority in the used authorities that is not
\* among the recorded pairs
C35_Witness ==
    /\ v_append = "UnknownSigner"
    /\ v_agg.partial.signatures # <<>>
    /\ v_cert.signatures[v_pos][1] \in v_agg.used_authorities \ Signers(v_agg.partial)

\* C36: every vote stored in a pending entry verifies under its authority
\* over the transfer of the entry's own order; whenever the weight of an
\* entry reached the quorum threshold create_certificate returns a
\* certificate, in whatever order the stored votes are iterated; and with at
\* most one faulty authority check_pending_transfers does not fail
C36_StoredVotesCertify ==
    /\ \A id \in DOMAIN relayer_pending :
          LET pending == relayer_pending[id]
          IN /\ \A n \in DOMAIN pending.signed_orders :
                   SignatureCheck(pending.signed_orders[n].signature,
                                  pending.order.transfer, n)
             /\ pending.weight >= QuorumThreshold(voting_rights)
                   => \A names \in ShardOrders(DOMAIN pending.signed_orders) :
                         CreateCertificate(pending, voting_rights, names).res = "Some"
    /\ Cardinality(byzantine) <= 1 => r_pc # "failed"

\* C37: the certificate the relayer submits and broadcasts passes check
\* against the relayer's committee: it is over the pending entry's order,
\* its signers are distinct committee members whose weights reach the quorum
\* threshold, and every signature verifies over the entry's transfer; a
\* certificate on the wire is that certificate
C37_SubmittedCertificatePasses ==
    /\ r_pc \in {"cert_send", "cert_recv"}
          => LET certificate == r_local.certificate
                 pending == relayer_pending[DummyTxId]
             IN /\ CertCheck(certificate, voting_rights) = "Ok"
                /\ certificate.value = pending.order
                /\ ~ListsTwice(certificate)
                /\ Signers(certificate) \subseteq Members
                /\ SumWeights(voting_rights, Signers(certificate))
                      >= QuorumThreshold(voting_rights)
                /\ \A i \in DOMAIN certificate.signatures :
                      SignatureCheck(certificate.signatures[i][2],
                                     pending.order.transfer,
                                     certificate.signatures[i][1])
    /\ (wire.kind = "request" /\ wire.tag = "CertifiedCrossChainTransferOrder")
          => /\ r_pc = "cert_recv"
             /\ wire.body = r_local.certificate

\* C37 witness: the relayer has a certificate on the wire to an authority
\* while the pending entry also stores a vote of a faulty authority that
\* does not verify over the entry's transfer
C37_Witness ==
    /\ r_pc = "cert_recv"
    /\ wire.kind = "request"
    /\ wire.tag = "CertifiedCrossChainTransferOrder"
    /\ \E n \in DOMAIN relayer_pending[DummyTxId].signed_orders :
          ~SignatureCheck(relayer_pending[DummyTxId].signed_orders[n].signature,
                          relayer_pending[DummyTxId].order.transfer, n)

\* C38: for every signed order an honest authority has returned for an id,
\* the id is a key of pending or a member of processed on the owning shard;
\* an id leaves pending only by an accepted update for that id on that
\* shard, which marks it processed
C38_VoteRecorded ==
    /\ [](\A a \in Honest : \A s \in DOMAIN shard_states[a] : \A id \in TxIds :
             Voted(a, s, id) => id \in DOMAIN Pending(a, s) \cup Processed(a, s))
    /\ [][\A a \in Honest : \A s \in DOMAIN shard_states[a] :
             \A id \in DOMAIN Pending(a, s) :
                id \notin DOMAIN shard_states'[a][s].pending_transfers
                   => /\ reply' = "Ok"
                      /\ <<a, s, id>> \in updated'
                      /\ id \in shard_states'[a][s].processed_transfers
                      /\ \A s2 \in DOMAIN shard_states[a] : \A id2 \in DOMAIN Pending(a, s2) :
                            (s2 # s \/ id2 # id)
                               => id2 \in DOMAIN shard_states'[a][s2].pending_transfers]_vars

\* C38 witness: an honest authority voted for two transfers that carry the
\* same id, and an update then moved the id from pending to processed on
\* the owning shard
C38_Witness ==
    \E a \in Honest : \E s \in DOMAIN shard_states[a] :
        /\ SignatureNew(TA, a) \in sigs
        /\ SignatureNew(TB, a) \in sigs
        /\ InShard(TA, s)
        /\ TA.interop_tx_id \in Processed(a, s)
        /\ TA.interop_tx_id \notin DOMAIN Pending(a, s)

\* ------------------------------------------------------- committee claim
\* C39: for a committee of total weight at least 1 the quorum threshold is
\* at most the total weight, twice the quorum threshold minus the total
\* weight is at least the validity threshold, and any two sets of
\* authorities whose weights each reach the quorum threshold share
\* authorities of total weight at least the validity threshold
C39_QuorumIntersection ==
    LET total == TotalVotes(voting_rights)
        quorum == QuorumThreshold(voting_rights)
        validity == ValidityThreshold(voting_rights)
    IN total >= 1
       => /\ quorum <= total
          /\ 2 * quorum - total >= validity
          /\ \A S1, S2 \in SUBSET DOMAIN voting_rights :
                (/\ SumWeights(voting_rights, S1) >= quorum
                 /\ SumWeights(voting_rights, S2) >= quorum)
                => SumWeights(voting_rights, S1 \cap S2) >= validity

\* C39 witness: check accepted a certificate while another set of
\* authorities also reaches the quorum threshold and shares with the
\* certificate's signers exactly the validity threshold
C39_Witness ==
    /\ v_check = "Ok"
    /\ \E S2 \in SUBSET DOMAIN voting_rights :
          /\ S2 # Signers(v_cert)
          /\ SumWeights(voting_rights, S2) >= QuorumThreshold(voting_rights)
          /\ SumWeights(voting_rights, S2 \cap Signers(v_cert))
                = ValidityThreshold(voting_rights)

====
